---- MODULE Spec2Model ----
(***************************************************************************)
(* Formal model of go-metrics-collector: the two Storage backends          *)
(* (MemStorage, a map under a sync.RWMutex; PostgresStorage, two tables    *)
(* behind WithRetry) driven by concurrent callers, and the agent's         *)
(* collector / reporter pipeline joined by the metrics channel.            *)
(***************************************************************************)
EXTENDS Integers, Sequences, FiniteSets, TLC

\* ------------------------------------------------------------------ bounds
\* Total number of environment events in one run: storage calls issued by
\* the callers plus database failures injected.
MaxEvents == 3
\* Number of poll-interval ticks the collector serves in one run.
MaxPolls == 1
\* Number of report-interval ticks the producer serves in one run.
MaxTicks == 3

\* ------------------------------------------------------- small input sets
Callers == {"c1", "c2"}
Ids == {"a", "b"}
Vals == {1, 2}
Kinds == {"counter", "gauge"}

NoCaller == "none"

\* models.Metrics restricted to the fields SetMetrics reads (val stands for
\* *Delta of a counter and *Value of a gauge).
Envelopes == [MType : Kinds, ID : Ids, val : {1}]
\* Batches of two entries; the ids are interchangeable, so the first entry
\* is always on id "a".
Batches == {<<e1, e2>> : e1 \in {e \in Envelopes : e.ID = "a"}, e2 \in Envelopes}

\* storage.Metric: the Type tag and the dynamic type of Value agree for
\* every value the store itself writes, so one kind field stands for both.
Absent == [kind |-> "none", value |-> 0]
CounterMetric(v) == [kind |-> "counter", value |-> v]
GaugeMetric(v) == [kind |-> "gauge", value |-> v]
EmptyMap == [x \in Ids |-> Absent]

\* Entries of a decoded snapshot handed to LoadData: Type as written in the
\* file, Value a JSON number (float64 after decoding, held in half units so
\* that 3 is 1.5) or something that is no number.
LoadEntries ==
    [Type : Kinds, value : {3}, isFloat : BOOLEAN] \cup [Type : {"bogus"}, value : {3}, isFloat : {TRUE}]
LoadInputs == UNION {[S -> LoadEntries] : S \in (SUBSET Ids) \ {{}}}

\* Errors of storage.go.
Ok == "ok"
ErrMetricNotFound == "metric not found"
ErrMetricIsNotCounter == "metric is not counter"
ErrMetricIsNotGauge == "metric is not gauge"
ErrLoad == "failed load metric"
\* Errors of postgres.go: a driver error passed through, and WithRetry giving up.
ErrDB == "db error"
ErrRetryExceeded == "retry attempts exceeded"

VARIABLES
    backend,    \* which Storage implementation the handle is: "mem" or "pg"
    data,       \* MemStorage.data
    mu,         \* MemStorage.mu: [w: the writer or NoCaller, r: set of readers]
    crashed,    \* the runtime aborted on a concurrent map read and map write
    counters,   \* table metric_counters: name -> value, committed rows
    gauges,     \* table metric_gauges: name -> value, committed rows
    faults,     \* number of database failures injected so far
    pc,         \* per caller: position inside the current storage call
    op,         \* per caller: the current call and its arguments
    loc,        \* per caller: local variables of the current call
    ret,        \* what the step just taken returned, and to whom (NoReturn if nothing)
    calls,      \* number of calls issued so far
    total,      \* history: per id, the counter value loaded plus the deltas written since
    metricValue, \* agent: per registered metric, the value field of the metric object
    polls,      \* agent: poll ticks served so far
    ticks,      \* agent: report ticks served so far
    cancelled,  \* agent: ctx is done
    collector,  \* agent: RunCollector's position: "select" or "returned"
    producer,   \* agent: position of the RunProducer goroutine
    metricsChan,\* agent: the buffered channel of metric objects
    closed,     \* agent: metricsChan is closed
    metricsBatch, \* agent: runConsumer's slice of envelopes
    reporter,   \* agent: runConsumer's position
    srv,        \* server: Server.Start's position
    restoreOnBoot, \* server: cfg.RestoreOnBoot
    quit,       \* server: a signal is pending on the quit channel
    errChan,    \* server: an error is pending on errChan
    rootDone,   \* server: the context of Start is cancelled
    httpsrv,    \* server: state of the HTTP listener
    grpcsrv,    \* server: state of the gRPC listener
    saver,      \* server: position and locals of RunDataSaver
    file,       \* server: contents of the store file
    storageClosed, \* server: storage.Close() was called
    rcfg,       \* router: the configuration NewRouter was given
    http,       \* router: per handler goroutine, the request being served
    limiter,    \* agent client: the token bucket of rate.Limiter
    sending,    \* agent client: where the reporter's sendRequest stands
    watch,      \* agent client: a one-second window and the sends started in it
    grpcStop,   \* gRPC server: Server.Shutdown and its helper goroutine
    handed,     \* agent: the sum of the PollCount deltas the reporter was given
    accepted    \* HTTP server: the connections with an accepted request in flight

memVars == <<data, mu, crashed>>
pgVars == <<counters, gauges, faults>>
storeVars == <<backend, data, mu, crashed, counters, gauges, faults, pc, op, loc, ret, calls, total>>
agentVars == <<metricValue, polls, ticks, cancelled, collector, producer, metricsChan, closed, metricsBatch, reporter>>
serverVars == <<srv, restoreOnBoot, quit, errChan, rootDone, httpsrv, grpcsrv, saver, file, storageClosed>>
httpVars == <<rcfg, http, limiter, sending, watch, grpcStop, handed, accepted>>
vars == <<storeVars, agentVars, serverVars, httpVars>>

Call(name, id, val, batch) == [name |-> name, id |-> id, val |-> val, batch |-> batch]
NoOp == Call("none", "a", 0, <<>>)
NoLoc ==
    [old |-> Absent, alias |-> FALSE, copy |-> EmptyMap, seen |-> {},
     i |-> 0, attempt |-> 0, wait |-> 0, cw |-> <<>>, gw |-> <<>>, missed |-> {},
     err |-> "none", ctxDone |-> FALSE]
Return(err, val) == [err |-> err, val |-> val]
NoReturn == [caller |-> NoCaller, call |-> NoOp, err |-> "none", val |-> 0, tries |-> 0]

\* A caller may issue a new call.
Budget == calls + faults < MaxEvents

Idle(c) == pc[c] = "idle" /\ Budget

\* The call a caller is entering (from idle, with any arguments) or resuming.
Entering(c, at, new) ==
    IF pc[c] = "idle" THEN (IF Budget THEN new ELSE {})
    ELSE IF pc[c] = at THEN {op[c]} ELSE {}

Counted(c) == calls' = IF pc[c] = "idle" THEN calls + 1 ELSE calls

\* The call o of caller c returns r.
Finish(c, o, r) ==
    /\ pc' = [pc EXCEPT ![c] = "idle"]
    /\ op' = [op EXCEPT ![c] = NoOp]
    /\ ret' = [caller |-> c, call |-> o, err |-> r.err, val |-> r.val, tries |-> loc[c].attempt + 1]

\* ============================================================ MemStorage
MuFree == [w |-> NoCaller, r |-> {}]

\* A lock that lets every caller in at once.
NoExclusion(c) == TRUE

\* mu.Lock() goes through only with no writer and no reader inside.
CanLock(c) == mu.w = NoCaller /\ mu.r = {}
\* mu.RLock() goes through only with no writer inside.
CanRLock(c) == mu.w = NoCaller

Lock(c) == [mu EXCEPT !.w = c]
Unlock(c) == [mu EXCEPT !.w = IF mu.w = c THEN NoCaller ELSE mu.w]
RLock(c) == [mu EXCEPT !.r = mu.r \cup {c}]
RUnlock(c) == [mu EXCEPT !.r = mu.r \ {c}]

\* A caller of SetMetrics goes on with the next entry unless the entry
\* failed or was the last; any other call returns to its caller.
ReturnFrom(c, r) ==
    IF op[c].name = "SetMetrics" /\ r.err = Ok /\ Len(op[c].batch) > 1
    THEN /\ pc' = [pc EXCEPT ![c] = "sm_next"]
         /\ op' = [op EXCEPT ![c].batch = Tail(@)]
         /\ ret' = NoReturn
    ELSE Finish(c, op[c], r)

\* ------------------------------------------------ MemStorage.SetCounter
\* The value SetCounter stores for an existing counter.
CounterSum(old, value) == old + value

\* s.mu.Lock() at the entry of SetCounter.
MemSetCounterLock(c) ==
    /\ backend = "mem" /\ Idle(c) /\ ~crashed /\ CanLock(c)
    /\ \E id \in Ids, d \in Vals : op' = [op EXCEPT ![c] = Call("SetCounter", id, d, <<>>)]
    /\ pc' = [pc EXCEPT ![c] = "sc_load"]
    /\ mu' = Lock(c)
    /\ calls' = calls + 1
    /\ UNCHANGED <<backend, data, crashed, loc, total, pgVars>>
    /\ UNCHANGED <<agentVars, serverVars, httpVars>>
    /\ ret' = NoReturn

\* metric, ok := s.data[name]
MemSetCounterLoad(c) ==
    /\ pc[c] = "sc_load" /\ ~crashed
    /\ loc' = [loc EXCEPT ![c].old = data[op[c].id]]
    /\ pc' = [pc EXCEPT ![c] = "sc_store"]
    /\ UNCHANGED <<backend, memVars, op, calls, total, pgVars>>
    /\ UNCHANGED <<agentVars, serverVars, httpVars>>
    /\ ret' = NoReturn

\* The assignment to s.data[name] (or the error return), then the deferred Unlock.
MemSetCounterStore(c) ==
    /\ pc[c] = "sc_store" /\ ~crashed
    /\ LET id == op[c].id
           old == loc[c].old
       IN  IF old.kind = "none"
           THEN /\ data' = [data EXCEPT ![id] = CounterMetric(op[c].val)]
                /\ total' = [total EXCEPT ![id] = @ + op[c].val]
                /\ ReturnFrom(c, Return(Ok, 0))
           ELSE IF old.kind = "counter"
           THEN /\ data' = [data EXCEPT ![id] = CounterMetric(CounterSum(old.value, op[c].val))]
                /\ total' = [total EXCEPT ![id] = @ + op[c].val]
                /\ ReturnFrom(c, Return(Ok, 0))
           ELSE /\ UNCHANGED <<data, total>>
                /\ ReturnFrom(c, Return(ErrMetricIsNotCounter, 0))
    /\ loc' = [loc EXCEPT ![c] = NoLoc]
    /\ mu' = Unlock(c)
    /\ UNCHANGED <<backend, crashed, calls, pgVars>>
    /\ UNCHANGED <<agentVars, serverVars, httpVars>>

\* -------------------------------------------------- MemStorage.SetGauge
\* s.mu.Lock() at the entry of SetGauge.
MemSetGaugeLock(c) ==
    /\ backend = "mem" /\ Idle(c) /\ ~crashed /\ CanLock(c)
    /\ \E id \in Ids, v \in Vals : op' = [op EXCEPT ![c] = Call("SetGauge", id, v, <<>>)]
    /\ pc' = [pc EXCEPT ![c] = "sg_store"]
    /\ mu' = Lock(c)
    /\ calls' = calls + 1
    /\ UNCHANGED <<backend, data, crashed, loc, total, pgVars>>
    /\ UNCHANGED <<agentVars, serverVars, httpVars>>
    /\ ret' = NoReturn

\* Variants of the assignment in SetGauge: one without the kind check, one
\* that adds to the gauge already stored.
GaugeOverwrites(old, value) == GaugeMetric(value)
GaugeAccumulates(old, value) ==
    IF old.kind = "gauge" THEN GaugeMetric(old.value + value)
    ELSE IF old.kind = "none" THEN GaugeMetric(value) ELSE old

\* What SetGauge leaves under name, given what is there.
GaugeStored(old, value) == IF old.kind \in {"none", "gauge"} THEN GaugeMetric(value) ELSE old

\* The kind check and the assignment, then the deferred Unlock.
MemSetGaugeStore(c) ==
    /\ pc[c] = "sg_store" /\ ~crashed
    /\ LET id == op[c].id
           old == data[id]
       IN  /\ data' = [data EXCEPT ![id] = GaugeStored(old, op[c].val)]
           /\ ReturnFrom(c, Return(IF old.kind \in {"none", "gauge"} THEN Ok ELSE ErrMetricIsNotGauge, 0))
    /\ mu' = Unlock(c)
    /\ UNCHANGED <<backend, crashed, loc, calls, total, pgVars>>
    /\ UNCHANGED <<agentVars, serverVars, httpVars>>

\* ------------------------------------- MemStorage.GetCounter / GetGauge
\* The (value, error) a typed read returns for what is stored.
ReadAs(kind, m) ==
    IF m.kind = "none" THEN Return(ErrMetricNotFound, 0)
    ELSE IF m.kind = kind THEN Return(Ok, m.value)
    ELSE Return(IF kind = "counter" THEN ErrMetricIsNotCounter ELSE ErrMetricIsNotGauge, 0)

\* s.mu.RLock() at the entry of GetCounter or GetGauge.
MemGetRLock(c) ==
    /\ backend = "mem" /\ Idle(c) /\ ~crashed /\ CanRLock(c)
    /\ \E id \in Ids, n \in {"GetCounter", "GetGauge"} : op' = [op EXCEPT ![c] = Call(n, id, 0, <<>>)]
    /\ pc' = [pc EXCEPT ![c] = "get_read"]
    /\ mu' = RLock(c)
    /\ calls' = calls + 1
    /\ UNCHANGED <<backend, data, crashed, loc, total, pgVars>>
    /\ UNCHANGED <<agentVars, serverVars, httpVars>>
    /\ ret' = NoReturn

\* The lookup and the return, then the deferred RUnlock.
MemGetRead(c) ==
    /\ pc[c] = "get_read" /\ ~crashed
    /\ Finish(c, op[c], ReadAs(IF op[c].name = "GetCounter" THEN "counter" ELSE "gauge", data[op[c].id]))
    /\ mu' = RUnlock(c)
    /\ UNCHANGED <<backend, data, crashed, loc, calls, total, pgVars>>
    /\ UNCHANGED <<agentVars, serverVars, httpVars>>

\* ---------------------------------------------- MemStorage.GetAllMetrics
\* Whether the map handed back is s.data itself rather than a copy of it.
ReturnsLiveMap == TRUE

\* The contents a caller finds in the map it was handed.
Visible(c) == IF loc[c].alias THEN data ELSE loc[c].copy

\* s.mu.RLock() at the entry of GetAllMetrics.
MemGetAllRLock(c) ==
    /\ backend = "mem" /\ Idle(c) /\ ~crashed /\ CanRLock(c)
    /\ op' = [op EXCEPT ![c] = Call("GetAllMetrics", "a", 0, <<>>)]
    /\ pc' = [pc EXCEPT ![c] = "ga_return"]
    /\ mu' = RLock(c)
    /\ calls' = calls + 1
    /\ UNCHANGED <<backend, data, crashed, loc, total, pgVars>>
    /\ UNCHANGED <<agentVars, serverVars, httpVars>>
    /\ ret' = NoReturn

\* return s.data, nil and the deferred RUnlock; loc.copy remembers the
\* contents at this moment.
MemGetAllReturn(c) ==
    /\ pc[c] = "ga_return" /\ ~crashed
    /\ loc' = [loc EXCEPT ![c].alias = ReturnsLiveMap, ![c].copy = data]
    /\ pc' = [pc EXCEPT ![c] = "ga_range"]
    /\ mu' = RUnlock(c)
    /\ UNCHANGED <<backend, data, crashed, op, calls, total, pgVars>>
    /\ UNCHANGED <<agentVars, serverVars, httpVars>>
    /\ ret' = NoReturn

\* The caller ranges over the map outside the lock (the for loop of the
\* GET / handler, the JSON encoder under DataManager.Save), one key per step.
\* A read that overlaps a writer inside its critical section is a data race:
\* the runtime may abort ("concurrent map read and map write") or not.
RangeOverMetrics(c) ==
    /\ pc[c] = "ga_range" /\ ~crashed
    /\ \E id \in Ids \ loc[c].seen :
          IF loc[c].seen \cup {id} = Ids
          THEN /\ Finish(c, op[c], Return(Ok, 0))
               /\ loc' = [loc EXCEPT ![c] = NoLoc]
          ELSE /\ loc' = [loc EXCEPT ![c].seen = @ \cup {id}]
               /\ UNCHANGED <<pc, op>>
               /\ ret' = NoReturn
    /\ IF loc[c].alias /\ mu.w # NoCaller
       THEN crashed' \in BOOLEAN
       ELSE crashed' = crashed
    /\ UNCHANGED <<backend, data, mu, calls, total, pgVars>>
    /\ UNCHANGED <<agentVars, serverVars, httpVars>>

\* ------------------------------------------------- MemStorage.SetMetrics
\* One iteration of the loop: the entry's own SetCounter or SetGauge call,
\* which takes the lock for itself.
MemSetMetricsEntry(c) ==
    /\ backend = "mem" /\ ~crashed /\ CanLock(c)
    /\ \E o \in Entering(c, "sm_next", {Call("SetMetrics", "a", 0, b) : b \in Batches}) :
          LET e == Head(o.batch)
          IN  /\ op' = [op EXCEPT ![c] = [o EXCEPT !.id = e.ID, !.val = e.val]]
              /\ pc' = [pc EXCEPT ![c] = IF e.MType = "counter" THEN "sc_load" ELSE "sg_store"]
    /\ mu' = Lock(c)
    /\ Counted(c)
    /\ UNCHANGED <<backend, data, crashed, loc, total, pgVars>>
    /\ UNCHANGED <<agentVars, serverVars, httpVars>>
    /\ ret' = NoReturn

\* --------------------------------------------------- MemStorage.LoadData
\* int64(v) of a float64 held in half units.
Int64OfFloat(v) == v \div 2

LoadedMetric(e) ==
    IF e.Type = "counter" THEN CounterMetric(Int64OfFloat(e.value)) ELSE GaugeMetric(e.value)

LoadFails(e) == e.Type \notin Kinds \/ ~e.isFloat

\* The map after the entries of `in` under the ids S were assigned.
Loaded(d, in, S) == [id \in Ids |-> IF id \in S THEN LoadedMetric(in[id]) ELSE d[id]]

\* The whole call runs under the exclusive lock. Map iteration order is
\* unspecified: on a bad entry the entries visited before it stay loaded.
MemLoadData(c) ==
    /\ backend = "mem" /\ Idle(c) /\ ~crashed /\ CanLock(c)
    /\ \E in \in LoadInputs :
          LET bad == {id \in DOMAIN in : LoadFails(in[id])}
          IN  \E S \in SUBSET (DOMAIN in \ bad) :
                 /\ bad = {} => S = DOMAIN in
                 /\ data' = Loaded(data, in, S)
                 /\ total' = [id \in Ids |->
                                 IF id \in S
                                 THEN (IF in[id].Type = "counter" THEN Int64OfFloat(in[id].value) ELSE 0)
                                 ELSE total[id]]
                 /\ Finish(c, Call("LoadData", "a", 0, <<>>), Return(IF bad = {} THEN Ok ELSE ErrLoad, 0))
    /\ calls' = calls + 1
    /\ UNCHANGED <<backend, mu, crashed, loc, pgVars>>
    /\ UNCHANGED <<agentVars, serverVars, httpVars>>

\* ======================================================= PostgresStorage
\* INSERT INTO metric_counters ... ON CONFLICT (name) DO UPDATE SET value = metric_counters.value + $2
UpsertCounter(t, name, v) ==
    [n \in DOMAIN t \cup {name} |->
        IF n = name THEN (IF name \in DOMAIN t THEN t[name] + v ELSE v) ELSE t[n]]

\* INSERT INTO metric_gauges ... ON CONFLICT (name) DO UPDATE SET value = $2
UpsertGauge(t, name, v) ==
    [n \in DOMAIN t \cup {name} |-> IF n = name THEN v ELSE t[n]]

\* A row written inside another caller's open transaction is locked until
\* that transaction commits or rolls back.
CounterRowFree(c, name) == \A o \in Callers \ {c} : name \notin DOMAIN loc[o].cw
GaugeRowFree(c, name) == \A o \in Callers \ {c} : name \notin DOMAIN loc[o].gw

\* retryCount and retryWaitInterval of WithRetry.
retryCount == 3
retryWaitInterval == 2

\* The calls of one method with every argument of the input sets.
PgCalls(n) ==
    IF n \in {"SetCounter", "SetGauge"} THEN {Call(n, id, v, <<>>) : id \in Ids, v \in Vals}
    ELSE IF n \in {"GetCounter", "GetGauge"} THEN {Call(n, id, 0, <<>>) : id \in Ids}
    ELSE IF n = "SetMetrics" THEN {Call(n, "a", 0, b) : b \in Batches}
    ELSE {Call(n, "a", 0, <<>>)}

\* The operation WithRetry is about to run for caller c: the first attempt
\* of a new call of method n, or the next attempt of the call in progress.
Running(c, n) == {o \in Entering(c, "pg_run", PgCalls(n)) : o.name = n}

\* The statement of that operation can succeed: database/sql refuses a
\* statement whose context is done.
Attempt(c, n) == IF loc[c].ctxDone THEN {} ELSE Running(c, n)

\* PostgresStorage.SetCounter: one autocommit upsert.
PgSetCounter(c) ==
    /\ backend = "pg"
    /\ \E o \in Attempt(c, "SetCounter") :
          /\ CounterRowFree(c, o.id)
          /\ counters' = UpsertCounter(counters, o.id, o.val)
          /\ total' = [total EXCEPT ![o.id] = @ + o.val]
          /\ Finish(c, o, Return(Ok, 0))
    /\ Counted(c)
    /\ loc' = [loc EXCEPT ![c] = NoLoc]
    /\ UNCHANGED <<backend, memVars, gauges, faults>>
    /\ UNCHANGED <<agentVars, serverVars, httpVars>>

\* PostgresStorage.SetGauge: one autocommit upsert.
PgSetGauge(c) ==
    /\ backend = "pg"
    /\ \E o \in Attempt(c, "SetGauge") :
          /\ GaugeRowFree(c, o.id)
          /\ gauges' = UpsertGauge(gauges, o.id, o.val)
          /\ Finish(c, o, Return(Ok, 0))
    /\ Counted(c)
    /\ loc' = [loc EXCEPT ![c] = NoLoc]
    /\ UNCHANGED <<backend, memVars, counters, faults, total>>
    /\ UNCHANGED <<agentVars, serverVars, httpVars>>

\* SELECT value FROM <table> WHERE name = $1; sql.ErrNoRows becomes ErrMetricNotFound.
PgSelect(t, name) == IF name \in DOMAIN t THEN Return(Ok, t[name]) ELSE Return(ErrMetricNotFound, 0)

\* PostgresStorage.GetCounter / GetGauge.
PgGet(c) ==
    /\ backend = "pg"
    /\ \E n \in {"GetCounter", "GetGauge"} : \E o \in Attempt(c, n) :
          Finish(c, o, PgSelect(IF n = "GetCounter" THEN counters ELSE gauges, o.id))
    /\ Counted(c)
    /\ loc' = [loc EXCEPT ![c] = NoLoc]
    /\ UNCHANGED <<backend, memVars, pgVars, total>>
    /\ UNCHANGED <<agentVars, serverVars, httpVars>>

\* data[name] = Metric{...} for every row of a table, over what data holds.
Scan(m, t, kind) ==
    [id \in Ids |-> IF id \in DOMAIN t THEN [kind |-> kind, value |-> t[id]] ELSE m[id]]

\* PostgresStorage.GetAllMetrics, first statement: SELECT ... FROM metric_counters.
\* The map data lives outside the retried closure and keeps what it holds.
PgGetAllCounters(c) ==
    /\ backend = "pg"
    /\ \E o \in Attempt(c, "GetAllMetrics") : op' = [op EXCEPT ![c] = o]
    /\ Counted(c)
    /\ loc' = [loc EXCEPT ![c].copy = Scan(@, counters, "counter"), ![c].missed = {}]
    /\ pc' = [pc EXCEPT ![c] = "pga_gauges"]
    /\ UNCHANGED <<backend, memVars, pgVars, total>>
    /\ UNCHANGED <<agentVars, serverVars, httpVars>>
    /\ ret' = NoReturn

\* The map GetAllMetrics returns: the gauge rows laid over what the first
\* statement put into data.
PgGetAllResult(d, g) == Scan(d, g, "gauge")

\* Second statement: SELECT ... FROM metric_gauges, then return data.
PgGetAllGauges(c) ==
    /\ pc[c] = "pga_gauges"
    /\ Finish(c, op[c], Return(Ok, 0))
    /\ loc' = [loc EXCEPT ![c] = NoLoc]
    /\ UNCHANGED <<backend, memVars, pgVars, calls, total>>
    /\ UNCHANGED <<agentVars, serverVars, httpVars>>

\* PostgresStorage.SetMetrics: db.Begin and the two tx.PrepareContext.
PgBegin(c) ==
    /\ backend = "pg"
    /\ \E o \in Attempt(c, "SetMetrics") : op' = [op EXCEPT ![c] = o]
    /\ Counted(c)
    /\ loc' = [loc EXCEPT ![c].i = 0, ![c].cw = <<>>, ![c].gw = <<>>]
    /\ pc' = [pc EXCEPT ![c] = "tx_exec"]
    /\ UNCHANGED <<backend, memVars, pgVars, total>>
    /\ UNCHANGED <<agentVars, serverVars, httpVars>>
    /\ ret' = NoReturn

\* One counterStmt/gaugeStmt.ExecContext inside the transaction: the row is
\* locked and the write stays private to the transaction.
PgTxExec(c) ==
    /\ pc[c] = "tx_exec" /\ loc[c].i < Len(op[c].batch)
    /\ LET e == op[c].batch[loc[c].i + 1]
       IN  IF e.MType = "counter"
           THEN /\ CounterRowFree(c, e.ID)
                /\ loc' = [loc EXCEPT ![c].i = @ + 1, ![c].cw = UpsertCounter(@, e.ID, e.val)]
           ELSE /\ GaugeRowFree(c, e.ID)
                /\ loc' = [loc EXCEPT ![c].i = @ + 1, ![c].gw = UpsertGauge(@, e.ID, e.val)]
    /\ UNCHANGED <<backend, memVars, pgVars, pc, op, calls, total>>
    /\ UNCHANGED <<agentVars, serverVars, httpVars>>
    /\ ret' = NoReturn

\* The tables after a transaction's private writes are committed.
CommitCounters(t, w) ==
    [n \in DOMAIN t \cup DOMAIN w |->
        (IF n \in DOMAIN t THEN t[n] ELSE 0) + (IF n \in DOMAIN w THEN w[n] ELSE 0)]
CommitGauges(t, w) ==
    [n \in DOMAIN t \cup DOMAIN w |-> IF n \in DOMAIN w THEN w[n] ELSE t[n]]

\* tx.Commit: every write of the batch becomes visible at once. A reader that
\* is between the two statements of GetAllMetrics has read metric_counters
\* without the batch and will read metric_gauges with it: loc.missed collects
\* the counters of such a batch.
PgCommit(c) ==
    /\ pc[c] = "tx_exec" /\ loc[c].i = Len(op[c].batch)
    /\ counters' = CommitCounters(counters, loc[c].cw)
    /\ gauges' = CommitGauges(gauges, loc[c].gw)
    /\ total' = [id \in Ids |-> total[id] + (IF id \in DOMAIN loc[c].cw THEN loc[c].cw[id] ELSE 0)]
    /\ Finish(c, op[c], Return(Ok, 0))
    /\ loc' = [o \in Callers |->
                 IF o = c THEN NoLoc
                 ELSE IF pc[o] = "pga_gauges" /\ gauges' # gauges
                      THEN [loc[o] EXCEPT !.missed = @ \cup DOMAIN loc[c].cw]
                      ELSE loc[o]]
    /\ UNCHANGED <<backend, memVars, faults, calls>>
    /\ UNCHANGED <<agentVars, serverVars, httpVars>>

\* PostgresStorage.LoadData is a stub.
PgLoadData(c) ==
    /\ backend = "pg" /\ Idle(c)
    /\ Finish(c, Call("LoadData", "a", 0, <<>>), Return(Ok, 0))
    /\ calls' = calls + 1
    /\ UNCHANGED <<backend, memVars, pgVars, loc, total>>
    /\ UNCHANGED <<agentVars, serverVars, httpVars>>

\* isRetryableError: connection refused, or a PgError of the connection
\* exception class.
\* Every error is taken for a transient one.
AllRetryable(err) == TRUE

isRetryableError(err) == err \in {"ECONNREFUSED", "connection_exception"}

DbErrors == {"ECONNREFUSED", "connection_exception", "other"}

\* A backoff that doubles.
DoublingWait(i) == 2 ^ i

\* The wait WithRetry sleeps after attempt i failed with a retryable error.
retryWaitTime(i) == i * retryWaitInterval + 1

\* The database call a method is about to make fails. A refused connection
\* and an error response leave the tables as they were; the deferred
\* tx.Rollback drops the private writes of a batch. WithRetry sleeps on a
\* retryable error and returns any other.
OperationFails(c) ==
    /\ backend = "pg"
    /\ \E n \in {"SetCounter", "SetGauge", "GetCounter", "GetGauge", "GetAllMetrics", "SetMetrics"} :
       \E o \in (IF pc[c] \in {"pga_gauges", "tx_exec"} THEN {x \in {op[c]} : x.name = n} ELSE Running(c, n)) :
       \E err \in (IF loc[c].ctxDone THEN {"other"} ELSE DbErrors) :
          IF isRetryableError(err)
          THEN /\ loc' = [loc EXCEPT ![c].wait = retryWaitTime(loc[c].attempt), ![c].err = err,
                                     ![c].cw = <<>>, ![c].gw = <<>>, ![c].i = 0, ![c].missed = {}]
               /\ pc' = [pc EXCEPT ![c] = "pg_sleep"]
               /\ op' = [op EXCEPT ![c] = o]
               /\ ret' = NoReturn
          ELSE /\ Finish(c, o, Return(ErrDB, 0))
               /\ loc' = [loc EXCEPT ![c] = NoLoc]
    /\ faults' = faults + 1
    /\ Counted(c)
    /\ UNCHANGED <<backend, memVars, counters, gauges, total>>
    /\ UNCHANGED <<agentVars, serverVars, httpVars>>

\* A failure with the budget of events of the store specifications.
PgOperationFails(c) ==
    /\ calls + faults + (IF pc[c] = "idle" THEN 1 ELSE 0) < MaxEvents
    /\ OperationFails(c)

\* A loop that never runs out of iterations.
AlwaysRetry(i) == TRUE

\* for i := range retryCount: after iteration i there is another one.
MoreAttempts(i) == i + 1 < retryCount

\* time.Sleep(retryWaitTime) is over: the next iteration of the loop, or
\* "retry attempts exceeded" after the last one.
PgRetry(c) ==
    /\ pc[c] = "pg_sleep"
    /\ IF MoreAttempts(loc[c].attempt)
       THEN /\ loc' = [loc EXCEPT ![c].attempt = @ + 1, ![c].wait = 0]
            /\ pc' = [pc EXCEPT ![c] = "pg_run"]
            /\ UNCHANGED <<op>>
            /\ ret' = NoReturn
       ELSE /\ Finish(c, op[c], Return(ErrRetryExceeded, 0))
            /\ loc' = [loc EXCEPT ![c] = NoLoc]
    /\ UNCHANGED <<backend, memVars, pgVars, calls, total>>
    /\ UNCHANGED <<agentVars, serverVars, httpVars>>

\* The context handed to a storage call is cancelled while the call waits
\* in the backoff of WithRetry. WithRetry was not given the context: the
\* sleep goes on, and the context is seen by the next statement only.
CtxCancel(c) ==
    /\ backend = "pg" /\ pc[c] = "pg_sleep" /\ ~loc[c].ctxDone
    /\ loc' = [loc EXCEPT ![c].ctxDone = TRUE]
    /\ ret' = NoReturn
    /\ UNCHANGED <<backend, memVars, pgVars, pc, op, calls, total>>
    /\ UNCHANGED <<agentVars, serverVars, httpVars>>

\* ================================================================== agent
\* The metrics registered with the collector (c.metrics, in slice order), cut
\* down to one counter and two gauges.
Registered == <<"PollCount", "RandomValue", "Alloc">>
MetricNames == {Registered[i] : i \in 1..Len(Registered)}

\* PollCount embeds CounterMetric and so implements Reseter; gauges do not.
IsReseter(m) == m = "PollCount"
GetKind(m) == IF m = "PollCount" THEN "counter" ELSE "gauge"

\* const batchSize in runConsumer.
batchSize == 10

\* make(chan metrics.Metric, len(c.metrics))
ChanCap == Len(Registered)

AtSelect == [at |-> "select", i |-> 0, final |-> FALSE]

\* What m.Collect() leaves in the metric: a counter counts the poll, a gauge
\* takes a new sample (samples are told apart by the number of the poll that
\* took them).
Collected(m, v, n) == IF GetKind(m) = "counter" THEN v + 1 ELSE n

\* RunCollector: case <-ticker.C, collect() over every registered metric.
Collect ==
    /\ collector = "select" /\ polls < MaxPolls
    /\ polls' = polls + 1
    /\ metricValue' = [m \in MetricNames |-> Collected(m, metricValue[m], polls')]
    /\ UNCHANGED <<storeVars, serverVars, httpVars, ticks, cancelled, collector, producer, metricsChan, closed, metricsBatch, reporter>>

\* RunCollector: case <-ctx.Done().
CollectorStop ==
    /\ collector = "select" /\ cancelled
    /\ collector' = "returned"
    /\ UNCHANGED <<storeVars, serverVars, httpVars, metricValue, polls, ticks, cancelled, producer, metricsChan, closed, metricsBatch, reporter>>

\* The agent's context is cancelled (a signal arrived).
Cancel ==
    /\ ~cancelled
    /\ cancelled' = TRUE
    /\ UNCHANGED <<storeVars, serverVars, httpVars, metricValue, polls, ticks, collector, producer, metricsChan, closed, metricsBatch, reporter>>

\* RunProducer: case <-ticker.C.
ProducerTick ==
    /\ producer.at = "select" /\ ticks < MaxTicks
    /\ ticks' = ticks + 1
    /\ producer' = [at |-> "send", i |-> 1, final |-> FALSE]
    /\ UNCHANGED <<storeVars, serverVars, httpVars, metricValue, polls, cancelled, collector, metricsChan, closed, metricsBatch, reporter>>

\* RunProducer: case <-ctx.Done(), the last flush.
ProducerDone ==
    /\ producer.at = "select" /\ cancelled
    /\ producer' = [at |-> "send", i |-> 1, final |-> TRUE]
    /\ UNCHANGED <<storeVars, serverVars, httpVars, metricValue, polls, ticks, cancelled, collector, metricsChan, closed, metricsBatch, reporter>>

\* A flush that stops after its first metric.
AfterFirstMetric(p) ==
    IF p.final THEN [at |-> "return", i |-> 0, final |-> TRUE] ELSE [at |-> "select", i |-> 0, final |-> FALSE]

\* Where flush goes after it is done with metric i: the next metric, back
\* to select, or return (and the deferred close) after the last flush.
AfterMetric(p) ==
    IF p.i < Len(Registered) THEN [p EXCEPT !.at = "send", !.i = @ + 1]
    ELSE IF p.final THEN [at |-> "return", i |-> 0, final |-> TRUE]
    ELSE AtSelect

\* flush: metricsChan <- m. The channel carries the metric object itself;
\* emitted records the value it held at this moment.
FlushSend ==
    /\ producer.at = "send" /\ Len(metricsChan) < ChanCap
    /\ LET m == Registered[producer.i]
       IN  /\ metricsChan' = Append(metricsChan, [metric |-> m, emitted |-> metricValue[m]])
           /\ producer' = IF IsReseter(m) THEN [producer EXCEPT !.at = "reset"] ELSE AfterMetric(producer)
    /\ UNCHANGED <<storeVars, serverVars, httpVars, metricValue, polls, ticks, cancelled, collector, closed, metricsBatch, reporter>>

\* flush: c.Reset() on a Reseter.
FlushReset ==
    /\ producer.at = "reset"
    /\ metricValue' = [metricValue EXCEPT ![Registered[producer.i]] = 0]
    /\ producer' = AfterMetric(producer)
    /\ UNCHANGED <<storeVars, serverVars, httpVars, polls, ticks, cancelled, collector, metricsChan, closed, metricsBatch, reporter>>

\* RunProducer returns: defer close(metricsChan).
ProducerClose ==
    /\ producer.at = "return"
    /\ closed' = TRUE
    /\ producer' = [producer EXCEPT !.at = "closed"]
    /\ UNCHANGED <<storeVars, serverVars, httpVars, metricValue, polls, ticks, cancelled, collector, metricsChan, metricsBatch, reporter>>

\* The models.Metrics runConsumer appends for a received metric: val is what
\* metric.GetValue() returns now. emitted and failed are history.
Envelope(x) ==
    [ID |-> x.metric, MType |-> GetKind(x.metric), val |-> metricValue[x.metric],
     emitted |-> x.emitted, failed |-> FALSE]

\* What an envelope adds to the PollCount total of the server.
Delta(e) == IF e.ID = "PollCount" THEN e.val ELSE 0

\* runConsumer: one iteration of `for metric := range r.metricsChan` up to
\* the batch-full check.
Receive ==
    /\ reporter = "range" /\ metricsChan # <<>>
    /\ metricsBatch' = Append(metricsBatch, Envelope(Head(metricsChan)))
    /\ metricsChan' = Tail(metricsChan)
    /\ reporter' = IF Len(metricsBatch') >= batchSize THEN "send" ELSE "range"
    /\ handed' = handed + Delta(Envelope(Head(metricsChan)))
    /\ UNCHANGED <<rcfg, http, limiter, sending, watch, grpcStop, accepted>>
    /\ UNCHANGED <<storeVars, serverVars, metricValue, polls, ticks, cancelled, collector, producer, closed>>

\* What is left in metricsBatch after sendRequest returned on a full batch.
AfterSend(batch, ok) ==
    IF ok THEN <<>> ELSE [k \in DOMAIN batch |-> [batch[k] EXCEPT !.failed = TRUE]]

\* runConsumer: r.sendRequest(metricsBatch) on a full batch. On an error the
\* loop continues; otherwise the slice is cut to length 0.
SendBatch ==
    /\ reporter = "send"
    /\ \E ok \in BOOLEAN : metricsBatch' = AfterSend(metricsBatch, ok)
    /\ reporter' = "range"
    /\ UNCHANGED <<storeVars, serverVars, httpVars, metricValue, polls, ticks, cancelled, collector, producer, metricsChan, closed>>

\* runConsumer: the channel is closed and drained, the loop ends.
RangeEnds ==
    /\ reporter = "range" /\ metricsChan = <<>> /\ closed
    /\ reporter' = IF Len(metricsBatch) > 0 THEN "residue" ELSE "done"
    /\ UNCHANGED <<storeVars, serverVars, httpVars, metricValue, polls, ticks, cancelled, collector, producer, metricsChan, closed, metricsBatch>>

\* runConsumer: the send of what is left after the loop; its error is logged.
SendResidue ==
    /\ reporter = "residue"
    /\ reporter' = "done"
    /\ UNCHANGED <<storeVars, serverVars, httpVars, metricValue, polls, ticks, cancelled, collector, producer, metricsChan, closed, metricsBatch>>

InitAgentVars ==
    /\ metricValue = [m \in MetricNames |-> 0]
    /\ polls = 0
    /\ handed = 0
    /\ ticks = 0
    /\ cancelled = FALSE
    /\ collector = "select"
    /\ producer = AtSelect
    /\ metricsChan = <<>>
    /\ closed = FALSE
    /\ metricsBatch = <<>>
    /\ reporter = "range"

\* ================================================================= server
\* An empty store file (just created or truncated).
EmptyFile == <<>>

\* Stand-in for 2^53, the first integer above which float64 no longer holds
\* every integer: it is larger than every other number of the model, and
\* the numbers above it are rounded as float64 rounds those above 2^53.
Two53 == 1000

\* float64 of a JSON number n given in half units: exact up to 2^53, and
\* from there to 2^54 the nearest even integer, ties to the even mantissa.
Float64OfNumber(n) ==
    IF n <= 2 * Two53 THEN n
    ELSE LET k == (n - 2 * Two53) \div 2
             r == k % 4
         IN  2 * (Two53 + (IF r = 0 THEN k ELSE IF r = 1 THEN k - 1 ELSE IF r = 2 THEN k ELSE k + 1))

\* json.Encoder on a storage.Metric: the type tag and the value as a JSON
\* number (in half units: a counter n is the integer n, written exactly).
EncodeMetric(m) ==
    [Type |-> m.kind, value |-> IF m.kind = "counter" THEN 2 * m.value ELSE m.value, isFloat |-> TRUE]

\* writeDataToFile: the JSON object of a map of metrics.
EncodeData(d) ==
    [id \in {x \in Ids : d[x].kind # "none"} |-> EncodeMetric(d[id])]

\* readDataFromFile: json.Decoder into map[string]storage.Metric; Value is
\* `any`, so every JSON number arrives as a float64.
DecodeData(f) == [id \in DOMAIN f |-> [f[id] EXCEPT !.value = Float64OfNumber(@)]]

\* A gauge that strconv.ParseFloat accepts and encoding/json refuses: NaN
\* (or an infinity). It is a value apart from every number of the model.
NaN == -1

\* writeDataToFile: Truncate(0), Seek(0, 0), then Encode. The encoder
\* marshals the whole map before it writes a byte, so a map it cannot
\* marshal leaves the file empty.
WriteData(d) ==
    IF \E id \in Ids : d[id].kind = "gauge" /\ d[id].value = NaN THEN EmptyFile ELSE EncodeData(d)

\* What GetAllMetrics returns for the store as it is now.
StoreView ==
    IF backend = "mem" THEN data
    ELSE PgGetAllResult(Scan(EmptyMap, counters, "counter"), gauges)

SaverOff == [at |-> "off", final |-> FALSE, got |-> EmptyMap, want |-> EmptyMap]

\* The process is running: Start has not returned and nothing has panicked.
ProcessAlive == ~crashed /\ srv # "exited"

\* The store files a server can find at start: none yet, a snapshot of one
\* counter, a snapshot of a counter and a gauge, a file with a foreign type.
InitialFiles ==
    { EmptyFile,
      EncodeData([EmptyMap EXCEPT !["a"] = CounterMetric(1)]),
      EncodeData([EmptyMap EXCEPT !["a"] = CounterMetric(2), !["b"] = GaugeMetric(3)]),
      [id \in {"a"} |-> [Type |-> "bogus", value |-> 3, isFloat |-> TRUE]] }

\* Start with the goroutines started before the restore.
SpawnFirst == <<"spawn", "restore", "select">>

\* The order of Server.Start: the restore, then the goroutines of the
\* data saver and of the listeners, then the select loop.
StartSequence == <<"restore", "spawn", "select">>

\* The statement of Start that follows statement p.
AfterStep(p) == StartSequence[1 + CHOOSE i \in DOMAIN StartSequence : StartSequence[i] = p]

\* Server.Start up to the creation of its context: with restoreOnBoot,
\* datamgr.Load reads the store file and hands the map to storage.LoadData
\* (MemStorage loads it, PostgresStorage ignores it); its error ends Start.
SrvRestore ==
    /\ srv = "restore" /\ ~crashed
    /\ IF restoreOnBoot /\ backend = "mem"
       THEN LET in == DecodeData(file)
                bad == {id \in DOMAIN in : LoadFails(in[id])}
            IN  \E S \in SUBSET (DOMAIN in \ bad) :
                   /\ bad = {} => S = DOMAIN in
                   /\ data' = Loaded(data, in, S)
                   /\ total' = [id \in Ids |->
                                   IF id \in S
                                   THEN (IF in[id].Type = "counter" THEN Int64OfFloat(in[id].value) ELSE 0)
                                   ELSE total[id]]
                   /\ srv' = IF bad = {} THEN AfterStep("restore") ELSE "abort"
       ELSE /\ srv' = AfterStep("restore")
            /\ UNCHANGED <<data, total>>
    /\ UNCHANGED <<backend, mu, crashed, pgVars, pc, op, loc, ret, calls>>
    /\ UNCHANGED <<restoreOnBoot, quit, errChan, rootDone, httpsrv, grpcsrv, saver, file, storageClosed>>
    /\ UNCHANGED <<agentVars, httpVars>>

\* Start creates its context and starts three goroutines: the data saver
\* and the two listeners; then it waits in its select loop.
SrvSpawn ==
    /\ srv = "spawn" /\ ~crashed
    /\ srv' = AfterStep("spawn")
    /\ saver' = [saver EXCEPT !.at = "open"]
    /\ httpsrv' = "starting"
    /\ grpcsrv' = "starting"
    /\ UNCHANGED <<restoreOnBoot, quit, errChan, rootDone, file, storageClosed>>
    /\ UNCHANGED <<storeVars, agentVars, httpVars>>

\* httpsrv.Start: ListenAndServe serves, or fails and reports on errChan.
HttpListen ==
    /\ ProcessAlive /\ httpsrv = "starting"
    /\ \/ httpsrv' = "serving" /\ UNCHANGED errChan
       \/ httpsrv' = "failed" /\ errChan' = TRUE
    /\ UNCHANGED <<srv, restoreOnBoot, quit, rootDone, grpcsrv, saver, file, storageClosed>>
    /\ UNCHANGED <<storeVars, agentVars, httpVars>>

\* grpcsrv.Serve: net.Listen then srv.Serve, or an error on errChan.
GrpcListen ==
    /\ ProcessAlive /\ grpcsrv = "starting"
    /\ \/ grpcsrv' = "serving" /\ UNCHANGED errChan
       \/ grpcsrv' = "failed" /\ errChan' = TRUE
    /\ UNCHANGED <<srv, restoreOnBoot, quit, rootDone, httpsrv, saver, file, storageClosed>>
    /\ UNCHANGED <<storeVars, agentVars, httpVars>>

\* SIGINT, SIGTERM or SIGQUIT is delivered to the quit channel.
Signal ==
    /\ ProcessAlive /\ ~quit
    /\ quit' = TRUE
    /\ UNCHANGED <<srv, restoreOnBoot, errChan, rootDone, httpsrv, grpcsrv, saver, file, storageClosed>>
    /\ UNCHANGED <<storeVars, agentVars, httpVars>>

\* case err := <-errChan: Start returns the error.
SrvError ==
    /\ srv = "select" /\ ~crashed /\ errChan
    /\ srv' = "fail"
    /\ errChan' = FALSE
    /\ UNCHANGED <<restoreOnBoot, quit, rootDone, httpsrv, grpcsrv, saver, file, storageClosed>>
    /\ UNCHANGED <<storeVars, agentVars, httpVars>>

\* case <-quit, first statement: httpsrv.Shutdown with a 5 s context. The
\* listener stops accepting; Shutdown returns when the handlers are done
\* or when the deadline has passed.
SrvHttpShutdown ==
    /\ srv = "select" /\ ~crashed /\ quit
    /\ srv' = "grpc_shutdown"
    /\ httpsrv' = IF httpsrv = "failed" THEN "failed" ELSE "stopped"
    /\ UNCHANGED <<restoreOnBoot, quit, errChan, rootDone, grpcsrv, saver, file, storageClosed>>
    /\ UNCHANGED <<storeVars, agentVars, httpVars>>

\* Some call is still running inside a handler.
HandlerRunning == \E c \in Callers : pc[c] # "idle"

\* grpcsrv.Shutdown with a 5 s context: a goroutine runs GracefulStop and
\* then sends on done; Shutdown selects on ctx.Done() and done, and closes
\* done when it returns. With no RPC in flight GracefulStop is over first.
\* With one in flight the deadline may pass first: Shutdown calls Stop and
\* returns, and the goroutine is left to send on the closed channel.
SrvGrpcShutdown ==
    /\ srv = "grpc_shutdown" /\ ~crashed
    /\ srv' = "cancel"
    /\ \/ grpcsrv' = IF grpcsrv = "failed" THEN "failed" ELSE "stopped"
       \/ HandlerRunning /\ grpcsrv = "serving" /\ grpcsrv' = "forced"
    /\ UNCHANGED <<restoreOnBoot, quit, errChan, rootDone, httpsrv, saver, file, storageClosed>>
    /\ UNCHANGED <<storeVars, agentVars, httpVars>>

\* The goroutine of Shutdown gets back from GracefulStop after Stop and
\* sends on the closed channel done: the runtime panics, the process ends.
GrpcStopperPanics ==
    /\ ProcessAlive /\ grpcsrv = "forced"
    /\ crashed' = TRUE
    /\ UNCHANGED <<backend, data, mu, pgVars, pc, op, loc, ret, calls, total>>
    /\ UNCHANGED <<serverVars, agentVars, httpVars>>

\* cancel(): the context handed to the data saver is done.
SrvCancel ==
    /\ srv = "cancel" /\ ~crashed
    /\ srv' = "wait"
    /\ rootDone' = TRUE
    /\ UNCHANGED <<restoreOnBoot, quit, errChan, httpsrv, grpcsrv, saver, file, storageClosed>>
    /\ UNCHANGED <<storeVars, agentVars, httpVars>>

\* wg.Wait(): returns when RunDataSaver has returned.
SrvWait ==
    /\ srv = "wait" /\ ~crashed
    /\ saver.at = "returned"
    /\ srv' = "return"
    /\ UNCHANGED <<restoreOnBoot, quit, errChan, rootDone, httpsrv, grpcsrv, saver, file, storageClosed>>
    /\ UNCHANGED <<storeVars, agentVars, httpVars>>

\* Start returns: its deferred calls run, cancel() (once the context
\* exists) and then s.Close(), which closes the storage.
SrvReturn ==
    /\ srv \in {"return", "fail", "abort"} /\ ~crashed
    /\ srv' = "exited"
    /\ rootDone' = (rootDone \/ srv # "abort")
    /\ storageClosed' = TRUE
    /\ UNCHANGED <<restoreOnBoot, quit, errChan, httpsrv, grpcsrv, saver, file>>
    /\ UNCHANGED <<storeVars, agentVars, httpVars>>

\* ---------------------------------------------------------- RunDataSaver
\* os.OpenFile(O_CREATE|O_WRONLY|O_TRUNC): the store file is emptied; on
\* an error RunDataSaver returns it and the goroutine reports on errChan.
SaverOpen ==
    /\ ProcessAlive /\ saver.at = "open"
    /\ \/ /\ file' = EmptyFile
          /\ saver' = [saver EXCEPT !.at = "select"]
          /\ UNCHANGED errChan
       \/ /\ saver' = [saver EXCEPT !.at = "returned"]
          /\ errChan' = TRUE
          /\ UNCHANGED file
    /\ UNCHANGED <<srv, restoreOnBoot, quit, rootDone, httpsrv, grpcsrv, storageClosed>>
    /\ UNCHANGED <<storeVars, agentVars, httpVars>>

\* case <-ticker.C: m.Save(ctx, f).
SaverTick ==
    /\ ProcessAlive /\ saver.at = "select" /\ Budget
    /\ saver' = [saver EXCEPT !.at = "get", !.final = FALSE, !.want = StoreView]
    /\ calls' = calls + 1
    /\ UNCHANGED <<backend, memVars, pgVars, pc, op, loc, ret, total>>
    /\ UNCHANGED <<srv, restoreOnBoot, quit, errChan, rootDone, httpsrv, grpcsrv, file, storageClosed>>
    /\ UNCHANGED <<agentVars, httpVars>>

\* case <-ctx.Done(): m.Save(ctx, f) with the context that is done.
SaverDone ==
    /\ ProcessAlive /\ saver.at = "select" /\ rootDone
    /\ saver' = [saver EXCEPT !.at = "get", !.final = TRUE, !.want = StoreView]
    /\ UNCHANGED <<srv, restoreOnBoot, quit, errChan, rootDone, httpsrv, grpcsrv, file, storageClosed>>
    /\ UNCHANGED <<storeVars, agentVars, httpVars>>

\* What the saver does after a Save: back to the select, or, after the
\* Save of the ctx.Done() case, f.Close() and return.
AfterSave == IF saver.final THEN "close" ELSE "select"

\* Save, storage.GetAllMetrics(ctx) on a MemStorage: the context is not
\* looked at; the map returned under the read lock is the live one.
SaveMemGetAll ==
    /\ ProcessAlive /\ saver.at = "get" /\ backend = "mem"
    /\ mu.w = NoCaller
    /\ saver' = [saver EXCEPT !.at = "write"]
    /\ UNCHANGED <<srv, restoreOnBoot, quit, errChan, rootDone, httpsrv, grpcsrv, file, storageClosed>>
    /\ UNCHANGED <<storeVars, agentVars, httpVars>>

\* Save, storage.GetAllMetrics(ctx) on a PostgresStorage, first statement:
\* PrepareContext and QueryContext fail on a context that is done and on a
\* closed pool; the error is not retryable and Save returns it, to be
\* logged by RunDataSaver.
SavePgCounters ==
    /\ ProcessAlive /\ saver.at = "get" /\ backend = "pg"
    /\ saver' = IF rootDone \/ storageClosed
                THEN [saver EXCEPT !.at = AfterSave]
                ELSE [saver EXCEPT !.at = "gauges", !.got = Scan(EmptyMap, counters, "counter")]
    /\ UNCHANGED <<srv, restoreOnBoot, quit, errChan, rootDone, httpsrv, grpcsrv, file, storageClosed>>
    /\ UNCHANGED <<storeVars, agentVars, httpVars>>

\* Second statement of GetAllMetrics.
SavePgGauges ==
    /\ ProcessAlive /\ saver.at = "gauges"
    /\ saver' = IF rootDone \/ storageClosed
                THEN [saver EXCEPT !.at = AfterSave, !.got = EmptyMap]
                ELSE [saver EXCEPT !.at = "write", !.got = PgGetAllResult(@, gauges)]
    /\ UNCHANGED <<srv, restoreOnBoot, quit, errChan, rootDone, httpsrv, grpcsrv, file, storageClosed>>
    /\ UNCHANGED <<storeVars, agentVars, httpVars>>

\* writeDataToFile: Truncate(0), Seek, Encode, Sync. For a MemStorage the
\* encoder reads the live map.
SaveWrite ==
    /\ ProcessAlive /\ saver.at = "write"
    /\ file' = WriteData(IF backend = "mem" THEN data ELSE saver.got)
    /\ saver' = [saver EXCEPT !.at = AfterSave, !.got = EmptyMap]
    /\ UNCHANGED <<srv, restoreOnBoot, quit, errChan, rootDone, httpsrv, grpcsrv, storageClosed>>
    /\ UNCHANGED <<storeVars, agentVars, httpVars>>

\* f.Close() and return nil; the deferred wg.Done() runs.
SaverReturn ==
    /\ ProcessAlive /\ saver.at = "close"
    /\ saver' = [saver EXCEPT !.at = "returned"]
    /\ UNCHANGED <<srv, restoreOnBoot, quit, errChan, rootDone, httpsrv, grpcsrv, file, storageClosed>>
    /\ UNCHANGED <<storeVars, agentVars, httpVars>>

\* -------------------------------------------------------------- handlers
\* The HTTP listener accepts a request: its handler goroutine runs from
\* now on; http.Server.Shutdown waits for it until the deadline of its
\* context and then returns without closing the connection.
Accept(c) ==
    /\ ProcessAlive /\ httpsrv = "serving" /\ c \notin accepted
    /\ accepted' = accepted \cup {c}
    /\ UNCHANGED <<rcfg, http, limiter, sending, watch, grpcStop, handed>>
    /\ UNCHANGED <<storeVars, agentVars, serverVars>>

\* A handler of a serving listener, or one accepted while the listener was
\* serving, starts a call on the storage.
Request(c) ==
    /\ ProcessAlive
    /\ httpsrv = "serving" \/ grpcsrv = "serving" \/ c \in accepted
    /\ \/ MemSetCounterLock(c)
       \/ MemSetGaugeLock(c)
       \/ PgSetCounter(c)
       \/ PgSetGauge(c)

\* A handler goes on with the call it started.
HandlerStep(c) ==
    /\ ProcessAlive
    /\ \/ MemSetCounterLoad(c)
       \/ MemSetCounterStore(c)
       \/ MemSetGaugeStore(c)

InitServerVars ==
    /\ srv = StartSequence[1]
    /\ restoreOnBoot \in BOOLEAN
    /\ quit = FALSE
    /\ errChan = FALSE
    /\ rootDone = FALSE
    /\ httpsrv = "off"
    /\ grpcsrv = "off"
    /\ saver = SaverOff
    /\ file \in InitialFiles
    /\ storageClosed = FALSE

\* ======================================================== HTTP router
\* The identities of the keys in play: the HMAC key and the RSA key pair the
\* server was started with, and one foreign key of each sort.
SignKeys == {"k1", "k2"}
CryptoKeys == {"r1", "r2"}

\* The options NewRouter reads: which of its two middleware stacks for
\* /updates is built (variant), WithSignKey, WithCryptoPrivateKey and
\* WithTrustedSubnet.
RouterConfigs ==
    [variant : {1, 2}, signKey : {"", "k1"}, privKey : {"", "r1"}, trustedSubnet : BOOLEAN]

\* A body on the wire: the encodings wrapped around the JSON text, outermost
\* first, and the JSON document itself.
Body(layers, isArray, json) == [layers |-> layers, isArray |-> isArray, json |-> json]
NoBody == Body(<<>>, FALSE, <<>>)

\* The value of the HashSHA256 header: absent, text that is not hexadecimal,
\* or the hex of an HMAC-SHA256 of some bytes under some key.
NoHash == [kind |-> "absent", key |-> "", over |-> NoBody]
JunkHash == [kind |-> "junk", key |-> "", over |-> NoBody]

NoRequest ==
    [route |-> "none", xRealIP |-> "", xff |-> <<>>, peer |-> "in", enc |-> "",
     hash |-> NoHash, body |-> NoBody, path |-> <<>>]

\* A handler goroutine of the HTTP server that serves no request.
HttpIdle ==
    [stage |-> 0, req |-> NoRequest, body |-> NoBody, status |-> 0, trace |-> <<>>,
     hpc |-> "", prior |-> 0, between |-> 0, echo |-> 0]

\* ------------------------------------------------- the agent's send path
\* rate.NewLimiter(rate.Limit(10), 10): tokens per second and bucket size.
limit == 10
burst == 10

\* sendTimeout of NewMetricReporter, in seconds.
sendTimeout == 5

\* The clock advances by the time one token takes; so many steps are a second.
Second == limit

\* The calls a gRPC server gets in a run.
MaxRpcs == 2
Rpcs == 1..MaxRpcs

\* A gRPC server that has served no call yet; Shutdown has not been called.
GrpcServing ==
    [shut |-> "idle", helper |-> "none", expired |-> FALSE, closed |-> FALSE,
     stopped |-> FALSE, rpcs |-> [r \in Rpcs |-> "none"]]

\* The calls whose handler is running.
InFlight(g) == {r \in Rpcs : g.rpcs[r] = "running"}

\* A new limiter is full, the reporter is not sending, no window is watched.
NoSend ==
    /\ limiter = [tokens |-> burst]
    /\ sending = [pc |-> "idle", elapsed |-> 0, late |-> FALSE]
    /\ watch = [on |-> FALSE, age |-> 0, starts |-> 0]
    /\ grpcStop = GrpcServing
    /\ accepted = {}

\* No HTTP traffic.
NoHttp ==
    /\ rcfg = [variant |-> 1, signKey |-> "", privKey |-> "", trustedSubnet |-> FALSE]
    /\ http = [c \in Callers |-> HttpIdle]
    /\ NoSend

\* ------------------------------------------------------ requests on the wire
\* signature.CalculateHashSum: HMAC-SHA256 of the bytes under the key, in hex.
CalculateHashSum(key, body) == [kind |-> "hex", key |-> key, over |-> body]

\* compressDataGzip and encryptData: one more encoding around the bytes.
compressDataGzip(body) == [body EXCEPT !.layers = <<"gzip">> \o @]
encryptData(key, body) == [body EXCEPT !.layers = <<key>> \o @]

\* The batches the agent reports, and the JSON text json.Marshal gives each.
RouterBatches == {b \in Batches : b[1].MType = "counter" /\ b[2].ID = "b"}
Marshal(batch) == Body(<<>>, TRUE, batch)

\* The request MetricReporter.sendRequest and MetricClient.UpdateMetrics
\* build for a batch: the digest is taken over the JSON text, the body is
\* gzipped and then encrypted when the agent has a public key.
NewRequest(route, ip, enc, hash, body, path) ==
    [route |-> route, xRealIP |-> ip[1], xff |-> ip[2], peer |-> ip[3], enc |-> enc,
     hash |-> hash, body |-> body, path |-> path]
AgentRequest(batch, signKey, cryptoKey, ip) ==
    LET payload == Marshal(batch)
        hashsum == IF signKey # "" THEN CalculateHashSum(signKey, payload) ELSE NoHash
        zipped == compressDataGzip(payload)
        body == IF cryptoKey # "" THEN encryptData(cryptoKey, zipped) ELSE zipped
    IN  NewRequest("updates", <<ip, <<>>, ip>>, "gzip", hashsum, body, <<>>)

\* What a client can put into X-Real-IP, X-Forwarded-For and what the socket
\* reports as its peer: "in" is an address inside the trusted subnet, "out"
\* one outside it, "" a header that is absent.
SourceAddrs ==
    { <<real, fwd, peer>> : real \in {"", "in", "out"},
                            fwd \in {<<>>, <<"in", "out">>, <<"out", "in">>},
                            peer \in {"in", "out"} }

\* POST /updates as any client may send it.
UpdatesBodies ==
    {Body(l, TRUE, b) : l \in {<<>>, <<"gzip">>, <<"r1", "gzip">>, <<"r2", "gzip">>},
                        b \in RouterBatches}
UpdatesHashes ==
    {NoHash, JunkHash} \cup {CalculateHashSum(key, Marshal(b)) : key \in SignKeys, b \in RouterBatches}
UpdatesRequests ==
    {NewRequest("updates", ip, enc, h, b, <<>>) :
        ip \in SourceAddrs, enc \in {"", "gzip"}, h \in UpdatesHashes, b \in UpdatesBodies}

\* The other endpoints: those without a body, those with URL parameters and
\* those with one JSON object.
PathParams == [MType : Kinds, ID : {"a"}, val : {2}]
JSONObjects == {e \in Envelopes : e.ID = "a"}
BodilessRoutes == {"ping", "root", "debug"}
PathRoutes == {"update_path", "value_path"}
ObjectRoutes == {"update", "value"}
OtherRequests ==
    {NewRequest(rt, ip, "", NoHash, NoBody, <<>>) : rt \in BodilessRoutes, ip \in SourceAddrs}
    \cup {NewRequest(rt, ip, "", NoHash, NoBody, <<e>>) :
            rt \in PathRoutes, ip \in SourceAddrs, e \in PathParams}
    \cup {NewRequest(rt, ip, "", NoHash, Body(<<>>, FALSE, <<e>>), <<>>) :
            rt \in ObjectRoutes, ip \in SourceAddrs, e \in JSONObjects}
Requests == UpdatesRequests \cup OtherRequests

\* Single-metric updates from one address, for handlers that run side by side.
UpdateRequests ==
    {r \in OtherRequests :
        r.route \in {"update", "update_path"} /\ <<r.xRealIP, r.xff, r.peer>> = <<"in", <<>>, "in">>}

\* ------------------------------------------------------------- NewRouter
\* r.Use(...) of NewRouter: the middlewares in front of every route.
GlobalChain == <<"Recoverer", "StripSlashes", "Logger", "Whitelist">>

\* The r.Group of POST /updates in the two NewRouter of router.go.
UpdatesChain(cfg) ==
    LET crypt == IF cfg.privKey # "" THEN <<"Cryptography">> ELSE <<>>
        sign == IF cfg.signKey # "" THEN <<"HashSumValidator">> ELSE <<>>
    IN  IF cfg.variant = 1
        THEN crypt \o <<"Compress">> \o sign
        ELSE <<"Compress">> \o crypt \o sign

\* The middlewares of a route's own group.
GroupChain(route, cfg) ==
    CASE route = "updates" -> UpdatesChain(cfg)
      [] route \in PathRoutes -> <<"Compress", "MetricValidator">>
      [] route \in ObjectRoutes \cup {"root"} -> <<"Compress">>
      [] OTHER -> <<>>

\* What a request to the route runs through, the handler last.
Chain(route, cfg) == GlobalChain \o GroupChain(route, cfg) \o <<"Handler">>

\* The goroutine is about to enter the named stage of its request.
At(c, name) ==
    /\ http[c].status = 0
    /\ http[c].stage \in 1..Len(Chain(http[c].req.route, rcfg))
    /\ Chain(http[c].req.route, rcfg)[http[c].stage] = name

\* next.ServeHTTP(w, r), with the body the stage leaves in r.Body.
Pass(c, name, body) ==
    http' = [http EXCEPT ![c].stage = @ + 1, ![c].trace = Append(@, name), ![c].body = body]

\* The stage writes the response itself.
Answer(c, name, code) ==
    http' = [http EXCEPT ![c].status = code, ![c].trace = Append(@, name)]

\* What the stages in front of the handlers leave alone.
httpFrame ==
    <<backend, mu, crashed, faults, pc, op, loc, ret, calls, agentVars, serverVars, rcfg,
      limiter, sending, watch, grpcStop, handed, accepted>>
storeData == <<data, counters, gauges, total>>

\* The server accepts a request and hands it to a handler goroutine.
HttpReceive(c, R) ==
    /\ http[c].stage = 0
    /\ \E r \in R : http' = [http EXCEPT ![c].stage = 1, ![c].req = r, ![c].body = r.body]
    /\ UNCHANGED <<httpFrame, storeData>>

\* middleware.Recoverer, middleware.StripSlashes and Middlewares.Logger wrap
\* the call of the next stage.
MwRecoverer(c) ==
    /\ At(c, "Recoverer")
    /\ Pass(c, "Recoverer", http[c].body)
    /\ UNCHANGED <<httpFrame, storeData>>

MwStripSlashes(c) ==
    /\ At(c, "StripSlashes")
    /\ Pass(c, "StripSlashes", http[c].body)
    /\ UNCHANGED <<httpFrame, storeData>>

MwLogger(c) ==
    /\ At(c, "Logger")
    /\ Pass(c, "Logger", http[c].body)
    /\ UNCHANGED <<httpFrame, storeData>>

\* net.ParseIP over the texts in play.
ParseIP(h) == IF h \in {"in", "out"} THEN h ELSE "nil"

\* A variant that looks at the socket peer only.
PeerOnly(r) == ParseIP(r.peer)

\* getRemoteIPAddr: X-Real-IP, else the text before the first comma of
\* X-Forwarded-For, else the host of RemoteAddr.
getRemoteIPAddr(r) ==
    LET real == ParseIP(r.xRealIP)
        fwd == ParseIP(IF r.xff = <<>> THEN "" ELSE r.xff[1])
    IN  IF real # "nil" THEN real
        ELSE IF fwd # "nil" THEN fwd
        ELSE ParseIP(r.peer)

\* Middlewares.Whitelist.
MwWhitelist(c) ==
    /\ At(c, "Whitelist")
    /\ IF ~rcfg.trustedSubnet \/ getRemoteIPAddr(http[c].req) = "in"
       THEN Pass(c, "Whitelist", http[c].body)
       ELSE Answer(c, "Whitelist", 403)
    /\ UNCHANGED <<httpFrame, storeData>>

\* cryptutils.DecryptOAEP: the outermost encoding has to be RSA under the
\* public half of the key.
CanDecrypt(key, body) == body.layers # <<>> /\ Head(body.layers) = key

\* Middlewares.Cryptography.
MwCryptography(c) ==
    /\ At(c, "Cryptography")
    /\ IF CanDecrypt(rcfg.privKey, http[c].body)
       THEN Pass(c, "Cryptography", [http[c].body EXCEPT !.layers = Tail(@)])
       ELSE Answer(c, "Cryptography", 500)
    /\ UNCHANGED <<httpFrame, storeData>>

\* Middlewares.Compress: with Content-Encoding gzip the body is wrapped in a
\* gzip reader, which reads the gzip header at once.
MwCompress(c) ==
    /\ At(c, "Compress")
    /\ IF http[c].req.enc # "gzip"
       THEN Pass(c, "Compress", http[c].body)
       ELSE IF http[c].body.layers # <<>> /\ Head(http[c].body.layers) = "gzip"
       THEN Pass(c, "Compress", [http[c].body EXCEPT !.layers = Tail(@)])
       ELSE Answer(c, "Compress", 500)
    /\ UNCHANGED <<httpFrame, storeData>>

\* Middlewares.HashSumValidator.
MwHashSumValidator(c) ==
    /\ At(c, "HashSumValidator")
    /\ LET sign == CalculateHashSum(rcfg.signKey, http[c].body)
           header == http[c].req.hash
       IN  IF header.kind = "junk" THEN Answer(c, "HashSumValidator", 500)
           ELSE IF header = sign THEN Pass(c, "HashSumValidator", http[c].body)
           ELSE Answer(c, "HashSumValidator", 400)
    /\ UNCHANGED <<httpFrame, storeData>>

\* Middlewares.MetricValidator.
MwMetricValidator(c) ==
    /\ At(c, "MetricValidator")
    /\ IF http[c].req.path # <<>> /\ http[c].req.path[1].MType \in Kinds
       THEN Pass(c, "MetricValidator", http[c].body)
       ELSE Answer(c, "MetricValidator", 400)
    /\ UNCHANGED <<httpFrame, storeData>>

\* --------------------------------------------------------------- handlers
\* The store as the handlers' storage calls see it.
StoreNow == [data |-> data, counters |-> counters, gauges |-> gauges, total |-> total]

\* The counter total a store holds under an id, 0 when it holds none.
CounterIn(S, id) ==
    IF backend = "mem"
    THEN IF S.data[id].kind = "counter" THEN S.data[id].value ELSE 0
    ELSE IF id \in DOMAIN S.counters THEN S.counters[id] ELSE 0

\* What SetCounter or SetGauge returns for the entry: MemStorage asserts the
\* kind of what is stored, PostgresStorage upserts into the entry's table.
SetErr(S, e) ==
    IF backend = "mem" /\ S.data[e.ID].kind \notin {"none", e.MType}
    THEN IF e.MType = "counter" THEN ErrMetricIsNotCounter ELSE ErrMetricIsNotGauge
    ELSE Ok

\* The store after SetCounter(e.ID, v) or SetGauge(e.ID, v).
SetOn(S, e, v) ==
    IF SetErr(S, e) # Ok THEN S
    ELSE IF backend = "mem"
    THEN [S EXCEPT !.data[e.ID] =
                      IF e.MType = "gauge" THEN GaugeStored(@, v)
                      ELSE IF @.kind = "none" THEN CounterMetric(v)
                      ELSE CounterMetric(CounterSum(@.value, v)),
                   !.total[e.ID] = IF e.MType = "counter" THEN @ + v ELSE @]
    ELSE IF e.MType = "counter"
    THEN [S EXCEPT !.counters = UpsertCounter(@, e.ID, v), !.total[e.ID] = @ + v]
    ELSE [S EXCEPT !.gauges = UpsertGauge(@, e.ID, v)]

\* storage.SetMetrics: entry after entry up to the first error.
RECURSIVE SetMetricsOn(_, _)
SetMetricsOn(S, batch) ==
    IF batch = <<>> THEN [err |-> Ok, S |-> S]
    ELSE IF SetErr(S, Head(batch)) # Ok THEN [err |-> SetErr(S, Head(batch)), S |-> S]
    ELSE SetMetricsOn(SetOn(S, Head(batch), Head(batch).val), Tail(batch))

\* storage.GetCounter.
GetCounterIn(S, id) ==
    IF backend = "mem" THEN ReadAs("counter", S.data[id]) ELSE PgSelect(S.counters, id)
GetGaugeIn(S, id) ==
    IF backend = "mem" THEN ReadAs("gauge", S.data[id]) ELSE PgSelect(S.gauges, id)

\* The handler's step: the store it leaves and what becomes of its request;
\* a handler between its SetCounter and its GetCounter sees what the step
\* added to its counter.
HandlerDoes(c, S, mine) ==
    /\ data' = S.data /\ counters' = S.counters /\ gauges' = S.gauges /\ total' = S.total
    /\ http' = [o \in Callers |->
                   IF o = c THEN mine
                   ELSE IF http[o].hpc = "get"
                   THEN [http[o] EXCEPT !.between =
                            @ + CounterIn(S, http[o].body.json[1].ID)
                              - CounterIn(StoreNow, http[o].body.json[1].ID)]
                   ELSE http[o]]
    /\ UNCHANGED httpFrame

Answered(c, code) == [http[c] EXCEPT !.status = code, !.trace = Append(@, "Handler")]

AtHandler(c, routes) == At(c, "Handler") /\ http[c].hpc = "" /\ http[c].req.route \in routes

\* Handlers.UpdateMetricsJSON.
UpdateMetricsJSON(c) ==
    /\ AtHandler(c, {"updates"})
    /\ LET body == http[c].body
           r == SetMetricsOn(StoreNow, body.json)
       IN  IF body.layers # <<>> \/ ~body.isArray
           THEN HandlerDoes(c, StoreNow, Answered(c, 400))
           ELSE HandlerDoes(c, r.S, Answered(c, IF r.err = Ok THEN 200 ELSE 500))

\* Handlers.UpdateMetricJSON up to the return of SetCounter or SetGauge.
UpdateMetricJSON(c) ==
    /\ AtHandler(c, {"update"})
    /\ LET body == http[c].body
           e == body.json[1]
       IN  IF body.layers # <<>> \/ body.isArray \/ body.json = <<>>
           THEN HandlerDoes(c, StoreNow, Answered(c, 400))
           ELSE IF SetErr(StoreNow, e) # Ok
           THEN HandlerDoes(c, StoreNow, Answered(c, 500))
           ELSE IF e.MType = "gauge"
           THEN HandlerDoes(c, SetOn(StoreNow, e, e.val), [Answered(c, 200) EXCEPT !.echo = e.val])
           ELSE HandlerDoes(c, SetOn(StoreNow, e, e.val),
                            [http[c] EXCEPT !.hpc = "get", !.prior = CounterIn(StoreNow, e.ID)])

\* A variant of the read that answers from what the handler wrote.
EchoOwn(c, r) == http[c].prior + http[c].body.json[1].val

\* val of val, err := h.storage.GetCounter(ctx, metricPayload.ID).
EchoRead(c, r) == r.val

\* Handlers.UpdateMetricJSON from its GetCounter to the response.
UpdateMetricJSONEcho(c) ==
    /\ At(c, "Handler") /\ http[c].hpc = "get"
    /\ LET r == GetCounterIn(StoreNow, http[c].body.json[1].ID)
       IN  HandlerDoes(c, StoreNow,
                       IF r.err # Ok THEN [Answered(c, 500) EXCEPT !.hpc = "done"]
                       ELSE [Answered(c, 200) EXCEPT !.hpc = "done", !.echo = EchoRead(c, r)])

\* Handlers.UpdateMetric: the value is parsed as a float64 and converted
\* for a counter.
UpdateMetric(c) ==
    /\ AtHandler(c, {"update_path"})
    /\ LET e == http[c].req.path[1]
           v == IF e.MType = "counter" THEN Int64OfFloat(e.val) ELSE e.val
       IN  IF SetErr(StoreNow, e) # Ok
           THEN HandlerDoes(c, StoreNow, Answered(c, 500))
           ELSE HandlerDoes(c, SetOn(StoreNow, e, v), Answered(c, 200))

\* Handlers.GetMetric and Handlers.GetMetricJSON.
GetMetric(c) ==
    /\ AtHandler(c, {"value", "value_path"})
    /\ LET e == IF http[c].req.route = "value" THEN http[c].body.json[1] ELSE http[c].req.path[1]
           r == IF e.MType = "counter" THEN GetCounterIn(StoreNow, e.ID)
                ELSE GetGaugeIn(StoreNow, e.ID)
       IN  HandlerDoes(c, StoreNow,
                       IF r.err = Ok THEN [Answered(c, 200) EXCEPT !.echo = r.val]
                       ELSE IF r.err = ErrMetricNotFound THEN Answered(c, 404)
                       ELSE Answered(c, 500))

\* Handlers.Ping, Handlers.GetAllMetrics and the profiler under /debug.
ServeBodiless(c) ==
    /\ AtHandler(c, BodilessRoutes)
    /\ HandlerDoes(c, StoreNow, Answered(c, 200))


\* ------------------------------------------------- the agent's send path
Min(a, b) == IF a < b THEN a ELSE b

\* What the send path leaves alone.
sendFrame == <<storeVars, agentVars, serverVars, rcfg, http, grpcStop, handed, accepted>>

\* A send gets its token and goes on to req.Post: one more start in the
\* window that is watched.
TakeToken ==
    /\ limiter' = [limiter EXCEPT !.tokens = @ - 1]
    /\ watch' = IF watch.on THEN [watch EXCEPT !.starts = @ + 1] ELSE watch

\* MetricReporter.sendRequest up to rateLimiter.Wait(ctx) in UpdateMetrics:
\* ctx is context.WithTimeout(context.Background(), sendTimeout). With a token
\* in the bucket Wait returns at once, otherwise the send waits for one.
SendRequest ==
    /\ sending.pc = "idle"
    /\ IF limiter.tokens >= 1
       THEN /\ TakeToken
            /\ sending' = [pc |-> "post", elapsed |-> 0, late |-> FALSE]
       ELSE /\ sending' = [pc |-> "wait", elapsed |-> 0, late |-> cancelled]
            /\ UNCHANGED <<limiter, watch>>
    /\ UNCHANGED sendFrame

\* rateLimiter.Wait(ctx) returns nil: the token has come.
LimiterWaitDone ==
    /\ sending.pc = "wait"
    /\ limiter.tokens >= 1
    /\ TakeToken
    /\ sending' = [sending EXCEPT !.pc = "post"]
    /\ UNCHANGED sendFrame

\* req.Post("/updates") returns, with a response or an error, whenever the
\* transport is through with the request and its retries.
PostReturns ==
    /\ sending.pc = "post"
    /\ sending' = [pc |-> "idle", elapsed |-> 0, late |-> FALSE]
    /\ UNCHANGED <<limiter, watch>>
    /\ UNCHANGED sendFrame

\* Time passes: one token is added up to the bucket size, the send in
\* flight and the watched window get older. A send that waits for a token
\* goes on when the token has come: Wait sleeps for exactly that long.
ClockTick ==
    /\ ~(sending.pc = "wait" /\ limiter.tokens >= 1)
    /\ limiter' = [limiter EXCEPT !.tokens = Min(burst, @ + 1)]
    /\ sending' = IF sending.pc = "idle" THEN sending
                  ELSE [sending EXCEPT !.elapsed = Min(sendTimeout * Second + 1, @ + 1)]
    /\ watch' = IF ~watch.on THEN watch
                ELSE IF watch.age + 1 >= Second THEN [on |-> FALSE, age |-> 0, starts |-> 0]
                ELSE [watch EXCEPT !.age = @ + 1]
    /\ UNCHANGED sendFrame

\* Any moment may be the beginning of a one-second window.
WindowOpens ==
    /\ ~watch.on
    /\ watch' = [on |-> TRUE, age |-> 0, starts |-> 0]
    /\ UNCHANGED <<limiter, sending>>
    /\ UNCHANGED sendFrame

\* ------------------------------------------- reporter to server, end to end
\* The id the store of the model keeps a reported metric under: PollCount
\* under one id, the gauges under the other.
StoredAs(name) == IF name = "PollCount" THEN "a" ELSE "b"

\* json.Marshal of the reporter's batch as the server decodes it.
Reported(batch) ==
    [k \in DOMAIN batch |->
        [MType |-> batch[k].MType, ID |-> StoredAs(batch[k].ID), val |-> batch[k].val]]

\* What becomes of a request of the reporter: it does not reach the server,
\* it is served and the reporter gets the answer, or it is served and the
\* answer does not reach the reporter.
Outcomes == {"refused", "answered", "lost"}

\* sendRequest(metricsBatch) against a running server: UpdateMetricsJSON (or
\* the gRPC UpdateMetrics) hands the batch to storage.SetMetrics and answers
\* 200 (OK) when it returned nil; sendRequest returns nil on that answer only.
Deliver(batch, outcome) ==
    LET r == SetMetricsOn(StoreNow, Reported(batch))
    IN  [S |-> IF outcome = "refused" THEN StoreNow ELSE r.S,
         ok |-> outcome = "answered" /\ r.err = Ok]

\* What a delivery leaves alone.
deliverFrame ==
    <<backend, mu, crashed, faults, pc, op, loc, ret, calls, serverVars, httpVars,
      metricValue, polls, ticks, cancelled, collector, producer, metricsChan, closed>>

\* runConsumer: r.sendRequest(metricsBatch) on a full batch, with the server
\* at the other end.
DeliverBatch ==
    /\ reporter = "send"
    /\ \E outcome \in Outcomes :
          LET d == Deliver(metricsBatch, outcome)
          IN  /\ data' = d.S.data /\ counters' = d.S.counters
              /\ gauges' = d.S.gauges /\ total' = d.S.total
              /\ metricsBatch' = AfterSend(metricsBatch, d.ok)
    /\ reporter' = "range"
    /\ UNCHANGED deliverFrame

\* runConsumer: the send of what is left after the loop.
DeliverResidue ==
    /\ reporter = "residue"
    /\ \E outcome \in Outcomes :
          LET d == Deliver(metricsBatch, outcome)
          IN  /\ data' = d.S.data /\ counters' = d.S.counters
              /\ gauges' = d.S.gauges /\ total' = d.S.total
    /\ reporter' = "done"
    /\ UNCHANGED <<deliverFrame, metricsBatch>>

\* ------------------------------------------------- gRPC Server.Shutdown
\* What Shutdown and its helper leave alone.
grpcFrame == <<storeVars, agentVars, serverVars, rcfg, http, limiter, sending, watch, handed, accepted>>

\* A call is accepted while the server serves, and a handler returns.
RpcBegins ==
    /\ grpcStop.shut = "idle"
    /\ \E r \in Rpcs :
          /\ grpcStop.rpcs[r] = "none"
          /\ grpcStop' = [grpcStop EXCEPT !.rpcs[r] = "running"]
    /\ UNCHANGED grpcFrame

RpcEnds ==
    /\ \E r \in InFlight(grpcStop) :
          grpcStop' = [grpcStop EXCEPT !.rpcs[r] = "done"]
    /\ UNCHANGED grpcFrame

\* Shutdown(ctx): done := make(chan struct{}), the helper goroutine is
\* started and calls GracefulStop, Shutdown enters its select.
GrpcShutdown ==
    /\ grpcStop.shut = "idle"
    /\ grpcStop' = [grpcStop EXCEPT !.shut = "select", !.helper = "graceful"]
    /\ UNCHANGED grpcFrame

\* The deadline of the context given to Shutdown passes.
CtxDeadline ==
    /\ grpcStop.shut # "idle" /\ ~grpcStop.expired
    /\ grpcStop' = [grpcStop EXCEPT !.expired = TRUE]
    /\ UNCHANGED grpcFrame

\* s.srv.GracefulStop() returns: no call is in flight any more, or Stop has
\* closed the connections.
GracefulStopReturns ==
    /\ grpcStop.helper = "graceful"
    /\ InFlight(grpcStop) = {} \/ grpcStop.stopped
    /\ grpcStop' = [grpcStop EXCEPT !.helper = "send"]
    /\ UNCHANGED grpcFrame

\* done <- struct{}{} meets case <-done of the select.
HelperSends ==
    /\ grpcStop.helper = "send" /\ grpcStop.shut = "select" /\ ~grpcStop.closed
    /\ grpcStop' = [grpcStop EXCEPT !.helper = "exited", !.shut = "return"]
    /\ UNCHANGED grpcFrame

\* A variant of the select that does not wait for the deadline.
StopAtOnce(g) == TRUE

\* case <-ctx.Done() is ready.
CtxDone(g) == g.expired

\* case <-ctx.Done(): s.srv.Stop().
SelectCtxDone ==
    /\ grpcStop.shut = "select" /\ CtxDone(grpcStop)
    /\ grpcStop' = [grpcStop EXCEPT !.shut = "return", !.stopped = TRUE]
    /\ UNCHANGED grpcFrame

\* return nil, with the deferred close(done).
ShutdownReturns ==
    /\ grpcStop.shut = "return"
    /\ grpcStop' = [grpcStop EXCEPT !.shut = "returned", !.closed = TRUE]
    /\ UNCHANGED grpcFrame

\* done <- struct{}{} on the closed channel, whether the helper comes to it
\* after the close or was blocked in it: the runtime panics.
HelperPanics ==
    /\ grpcStop.helper = "send" /\ grpcStop.closed
    /\ grpcStop' = [grpcStop EXCEPT !.helper = "panicked"]
    /\ UNCHANGED grpcFrame

\* No server around the store: the store and agent specifications.
NoServer ==
    /\ srv = "exited"
    /\ restoreOnBoot = FALSE
    /\ quit = FALSE
    /\ errChan = FALSE
    /\ rootDone = FALSE
    /\ httpsrv = "off"
    /\ grpcsrv = "off"
    /\ saver = SaverOff
    /\ file = EmptyFile
    /\ storageClosed = FALSE

\* ---------------------------------------------- snapshot and restore
\* The values a counter can have reached (any int64 comes in as one delta)
\* and the gauges a request can set.
SnapshotMetrics ==
    {Absent} \cup {CounterMetric(v) : v \in {1, 2, Two53, Two53 + 1, Two53 + 2, Two53 + 3}}
             \cup {GaugeMetric(v) : v \in {1, 3, NaN}}

\* A store is snapshotted into the file by DataManager.Save.
SnapshotSave ==
    /\ srv = "save"
    /\ file' = WriteData(data)
    /\ saver' = [saver EXCEPT !.want = data]
    /\ srv' = "load"
    /\ UNCHANGED <<restoreOnBoot, quit, errChan, rootDone, httpsrv, grpcsrv, storageClosed>>
    /\ UNCHANGED <<storeVars, agentVars, httpVars>>

\* DataManager.Load into a new, empty MemStorage: readDataFromFile, then
\* LoadData entry by entry.
SnapshotLoad ==
    /\ srv = "load"
    /\ LET in == DecodeData(file)
           bad == {id \in DOMAIN in : LoadFails(in[id])}
       IN  \E S \in SUBSET (DOMAIN in \ bad) :
              /\ bad = {} => S = DOMAIN in
              /\ data' = Loaded(EmptyMap, in, S)
    /\ srv' = "loaded"
    /\ UNCHANGED <<backend, mu, crashed, pgVars, pc, op, loc, ret, calls, total>>
    /\ UNCHANGED <<restoreOnBoot, quit, errChan, rootDone, httpsrv, grpcsrv, saver, file, storageClosed>>
    /\ UNCHANGED <<agentVars, httpVars>>

InitSnapshot ==
    /\ backend = "mem"
    /\ data \in [Ids -> SnapshotMetrics]
    /\ mu = MuFree /\ crashed = FALSE
    /\ counters = <<>> /\ gauges = <<>> /\ faults = 0
    /\ pc = [c \in Callers |-> "idle"]
    /\ op = [c \in Callers |-> NoOp]
    /\ loc = [c \in Callers |-> NoLoc]
    /\ ret = NoReturn
    /\ calls = 0
    /\ total = [id \in Ids |-> IF data[id].kind = "counter" THEN data[id].value ELSE 0]
    /\ InitAgentVars
    /\ srv = "save"
    /\ restoreOnBoot = TRUE
    /\ quit = FALSE /\ errChan = FALSE /\ rootDone = FALSE
    /\ httpsrv = "off" /\ grpcsrv = "off"
    /\ saver = SaverOff
    /\ file = EmptyFile
    /\ storageClosed = FALSE
    /\ NoHttp

NextSnapshot == SnapshotSave \/ SnapshotLoad

\* ========================================================= specifications
InitStore ==
    /\ data = EmptyMap
    /\ mu = MuFree
    /\ crashed = FALSE
    /\ counters = <<>>
    /\ gauges = <<>>
    /\ faults = 0
    /\ pc = [c \in Callers |-> "idle"]
    /\ op = [c \in Callers |-> NoOp]
    /\ loc = [c \in Callers |-> NoLoc]
    /\ ret = NoReturn
    /\ calls = 0
    /\ total = [id \in Ids |-> 0]

InitMem == backend = "mem" /\ InitStore /\ InitAgentVars /\ NoServer /\ NoHttp
InitPg == backend = "pg" /\ InitStore /\ InitAgentVars /\ NoServer /\ NoHttp
InitServer ==
    backend \in {"mem", "pg"} /\ InitStore /\ InitAgentVars /\ InitServerVars /\ NoHttp
Init == InitMem \/ InitPg
InitAgent == InitMem

NextMem ==
    \E c \in Callers :
        \/ MemSetCounterLock(c)
        \/ MemSetCounterLoad(c)
        \/ MemSetCounterStore(c)
        \/ MemSetGaugeLock(c)
        \/ MemSetGaugeStore(c)
        \/ MemGetRLock(c)
        \/ MemGetRead(c)
        \/ MemGetAllRLock(c)
        \/ MemGetAllReturn(c)
        \/ RangeOverMetrics(c)
        \/ MemSetMetricsEntry(c)
        \/ MemLoadData(c)

NextPg ==
    \E c \in Callers :
        \/ PgSetCounter(c)
        \/ PgSetGauge(c)
        \/ PgGet(c)
        \/ PgGetAllCounters(c)
        \/ PgGetAllGauges(c)
        \/ PgBegin(c)
        \/ PgTxExec(c)
        \/ PgCommit(c)
        \/ PgLoadData(c)
        \/ PgOperationFails(c)
        \/ PgRetry(c)

NextAgent ==
    \/ Collect
    \/ CollectorStop
    \/ Cancel
    \/ ProducerTick
    \/ ProducerDone
    \/ FlushSend
    \/ FlushReset
    \/ ProducerClose
    \/ Receive
    \/ SendBatch
    \/ RangeEnds
    \/ SendResidue

Next == NextMem \/ NextPg

NextRetry ==
    \E c \in {"c1"} :
        \/ PgSetCounter(c)
        \/ PgSetGauge(c)
        \/ PgGet(c)
        \/ OperationFails(c)
        \/ PgRetry(c)
        \/ CtxCancel(c)

NextServer ==
    \/ SrvRestore
    \/ SrvSpawn
    \/ HttpListen
    \/ GrpcListen
    \/ Signal
    \/ SrvError
    \/ SrvHttpShutdown
    \/ SrvGrpcShutdown
    \/ GrpcStopperPanics
    \/ SrvCancel
    \/ SrvWait
    \/ SrvReturn
    \/ SaverOpen
    \/ SaverTick
    \/ SaverDone
    \/ SaveMemGetAll
    \/ SavePgCounters
    \/ SavePgGauges
    \/ SaveWrite
    \/ SaverReturn
    \/ \E c \in {"c1"} : Accept(c) \/ Request(c) \/ HandlerStep(c)

\* What the agent's goroutines are sure to do once they can. A blocked
\* channel operation goes through when its partner is ready; the select of
\* RunProducer picks among its ready cases at random, so <-ctx.Done() is
\* taken sooner or later. req.Post (metricclient.UpdateMetrics) carries
\* neither the context of sendRequest nor a client timeout, so a send
\* returns only when the server answers: nothing makes it return.
AgentFairness ==
    /\ SF_vars(ProducerDone)
    /\ WF_vars(FlushSend) /\ WF_vars(FlushReset) /\ WF_vars(ProducerClose)
    /\ WF_vars(CollectorStop)
    /\ WF_vars(Receive) /\ WF_vars(RangeEnds)

\* The in-memory store, the relational store, and a store of either kind.
SpecMem == InitMem /\ [][NextMem]_vars
SpecPg == InitPg /\ [][NextPg]_vars
\* The agent: collector, producer and reporter.
SpecAgent == InitAgent /\ [][NextAgent]_vars
SpecAgentLive == SpecAgent /\ AgentFairness
Spec == Init /\ [][Next]_vars
\* WithRetry around the single-statement calls, with as many failures of
\* the database as a call can meet.
SpecRetry == InitPg /\ [][NextRetry]_vars
\* The server: Start, the listeners, the data saver and one handler.
SpecServer == InitServer /\ [][NextServer]_vars
\* A snapshot of a store written to the file and restored from it.
SpecSnapshot == InitSnapshot /\ [][NextSnapshot]_vars

\* The router as it is built for a server over MemStorage.
InitRouter ==
    /\ backend = "mem" /\ InitStore /\ InitAgentVars /\ NoServer
    /\ rcfg \in RouterConfigs
    /\ http = [c \in Callers |-> HttpIdle]
    /\ NoSend

\* Two handler goroutines over either store, no key and no subnet configured.
InitEcho ==
    /\ backend \in {"mem", "pg"} /\ InitStore /\ InitAgentVars /\ NoServer
    /\ rcfg \in {cfg \in RouterConfigs : cfg.signKey = "" /\ cfg.privKey = "" /\ ~cfg.trustedSubnet}
    /\ http = [c \in Callers |-> HttpIdle]
    /\ NoSend

NextRouter ==
    \/ HttpReceive("c1", Requests)
    \/ MwRecoverer("c1")
    \/ MwStripSlashes("c1")
    \/ MwLogger("c1")
    \/ MwWhitelist("c1")
    \/ MwCryptography("c1")
    \/ MwCompress("c1")
    \/ MwHashSumValidator("c1")
    \/ MwMetricValidator("c1")
    \/ UpdateMetricsJSON("c1")
    \/ UpdateMetricJSON("c1")
    \/ UpdateMetricJSONEcho("c1")
    \/ UpdateMetric("c1")
    \/ GetMetric("c1")
    \/ ServeBodiless("c1")

NextEcho ==
    \E c \in Callers :
        \/ HttpReceive(c, UpdateRequests)
        \/ MwRecoverer(c)
        \/ MwStripSlashes(c)
        \/ MwLogger(c)
        \/ MwWhitelist(c)
        \/ MwCompress(c)
        \/ MwMetricValidator(c)
        \/ UpdateMetricJSON(c)
        \/ UpdateMetricJSONEcho(c)
        \/ UpdateMetric(c)

\* Batches of an agent without keys, next to single-metric updates.
BatchRequests == {AgentRequest(b, "", "", "in") : b \in Batches}

NextBatch ==
    \E c \in Callers :
        \/ HttpReceive(c, BatchRequests \cup UpdateRequests)
        \/ MwRecoverer(c)
        \/ MwStripSlashes(c)
        \/ MwLogger(c)
        \/ MwWhitelist(c)
        \/ MwCompress(c)
        \/ MwMetricValidator(c)
        \/ UpdateMetricsJSON(c)
        \/ UpdateMetricJSON(c)
        \/ UpdateMetricJSONEcho(c)
        \/ UpdateMetric(c)

SpecRouter == InitRouter /\ [][NextRouter]_vars
SpecEcho == InitEcho /\ [][NextEcho]_vars
SpecBatch == InitEcho /\ [][NextBatch]_vars

InitSend == InitMem

NextSend ==
    \/ SendRequest
    \/ LimiterWaitDone
    \/ PostReturns
    \/ ClockTick
    \/ WindowOpens
    \/ Cancel

SpecSend == InitSend /\ [][NextSend]_vars

\* An agent that reports to a server on either store; on the in-memory store
\* another client may have posted a counter under the name of a gauge.
InitDelivery ==
    /\ backend \in {"mem", "pg"}
    /\ data \in IF backend = "mem"
                THEN {EmptyMap, [EmptyMap EXCEPT !["b"] = CounterMetric(1)]}
                ELSE {EmptyMap}
    /\ mu = MuFree /\ crashed = FALSE
    /\ counters = <<>> /\ gauges = <<>> /\ faults = 0
    /\ pc = [c \in Callers |-> "idle"]
    /\ op = [c \in Callers |-> NoOp]
    /\ loc = [c \in Callers |-> NoLoc]
    /\ ret = NoReturn
    /\ calls = 0
    /\ total = [id \in Ids |-> IF data[id].kind = "counter" THEN data[id].value ELSE 0]
    /\ InitAgentVars /\ NoServer /\ NoHttp

NextDelivery ==
    \/ Collect
    \/ CollectorStop
    \/ Cancel
    \/ ProducerTick
    \/ ProducerDone
    \/ FlushSend
    \/ FlushReset
    \/ ProducerClose
    \/ Receive
    \/ DeliverBatch
    \/ RangeEnds
    \/ DeliverResidue

SpecDelivery == InitDelivery /\ [][NextDelivery]_vars

\* A server with some calls in flight, on which Shutdown is called.
InitGrpcStop == InitMem

NextGrpcStop ==
    \/ RpcBegins
    \/ RpcEnds
    \/ GrpcShutdown
    \/ CtxDeadline
    \/ GracefulStopReturns
    \/ HelperSends
    \/ SelectCtxDone
    \/ ShutdownReturns
    \/ HelperPanics
    \/ Cancel

\* The timer of the context fires, and the goroutine of Shutdown runs when
\* it can.
GrpcStopFairness ==
    /\ WF_vars(CtxDeadline)
    /\ WF_vars(SelectCtxDone)
    /\ WF_vars(ShutdownReturns)

SpecGrpcStop == InitGrpcStop /\ [][NextGrpcStop]_vars /\ GrpcStopFairness

\* ================================================================ storage
\* What GetCounter(id) would return if it ran now.
GetCounterNow(id) ==
    IF backend = "mem" THEN ReadAs("counter", data[id]) ELSE PgSelect(counters, id)

\* The kind GetAllMetrics reports for id ("none" if it reports none).
ReportedKind(id) ==
    IF backend = "mem" THEN data[id].kind
    ELSE PgGetAllResult(Scan(EmptyMap, counters, "counter"), gauges)[id].kind

\* C1: on either backend, whatever the interleaving of the callers, whenever
\* GetCounter(id) succeeds it returns the value the counter started from (0 if
\* absent, the loaded value after LoadData) plus the sum of the deltas of all
\* SetCounter calls and counter batch entries applied to id: no increment is
\* lost and none is applied twice.
NoIncrementLost ==
    \A id \in Ids : GetCounterNow(id).err = Ok => GetCounterNow(id).val = total[id]

\* A SetCounter on "a" has just returned while the other caller is in the
\* middle of a batch whose first entry incremented "a" as well.
NoIncrementLostWitness ==
    \E c \in Callers, o \in Callers :
        /\ o # c /\ pc[o] = "sm_next"
        /\ ret.caller = c /\ ret.call.name = "SetCounter" /\ ret.call.id = "a" /\ ret.err = Ok
        /\ GetCounterNow("a") = Return(Ok, ret.call.val + 1)

\* Caller c is about to run the kind check of a write whose kind differs from
\* the kind stored under the id.
KindMismatchAt(c) ==
    \/ pc[c] = "sg_store" /\ data[op[c].id].kind = "counter"
    \/ pc[c] = "sc_store" /\ data[op[c].id].kind = "gauge"

\* C2: in the in-memory store a SetGauge on an id stored as a counter, and a
\* SetCounter on an id stored as a gauge, returns the kind-mismatch error
\* (ErrMetricIsNotGauge, ErrMetricIsNotCounter) and leaves every id's stored
\* kind and value as they were.
MismatchLeavesStoreUnchanged ==
    [][\A c \in Callers :
          KindMismatchAt(c) /\ pc'[c] # pc[c] =>
              /\ data' = data
              /\ ret'.caller = c
              /\ ret'.err = IF pc[c] = "sg_store" THEN ErrMetricIsNotGauge ELSE ErrMetricIsNotCounter]_vars

\* A SetGauge on a stored counter has just been refused.
MismatchWitness ==
    /\ ret.call.name = "SetGauge" /\ ret.err = ErrMetricIsNotGauge
    /\ data[ret.call.id].kind = "counter" /\ data[ret.call.id].value = total[ret.call.id]

\* C3: once an id exists in a store, the kind reported for it never changes,
\* under any sequence of SetCounter, SetGauge, SetMetrics and LoadData calls.
KindNeverChanges ==
    [][\A id \in Ids : ReportedKind(id) # "none" => ReportedKind(id)' = ReportedKind(id)]_vars

\* C4: on the relational store no GetAllMetrics that returns successfully has
\* seen only part of a committed batch: every counter of a batch whose
\* gauges it read is in its result, unless a gauge of the same name hides it.
NoPartialBatchRead ==
    [][\A c \in Callers :
          pc[c] = "pga_gauges" /\ ret'.caller = c /\ ret'.err = Ok =>
              \A id \in loc[c].missed : id \in DOMAIN gauges]_vars

\* The write that returned r targets an id stored under the other kind.
MismatchingWrite(r) ==
    \/ r.call.name = "SetGauge" /\ r.call.id \in DOMAIN counters
    \/ r.call.name = "SetCounter" /\ r.call.id \in DOMAIN gauges

\* C5: on the relational store a write whose kind differs from the kind
\* stored under the id is rejected and changes neither table.
PgMismatchRejected ==
    [][backend = "pg" /\ MismatchingWrite(ret') =>
          ret'.err # Ok /\ counters' = counters /\ gauges' = gauges]_vars

\* C6: the map a caller of the in-memory GetAllMetrics ranges over holds what
\* the store held when the call returned, whatever was written since.
GetAllIsPointInTimeCopy ==
    \A c \in Callers : pc[c] = "ga_range" => Visible(c) = loc[c].copy

\* Caller c completes a write to id with this step.
WritesTo(c, id) == pc[c] \in {"sc_store", "sg_store"} /\ pc'[c] # pc[c] /\ op[c].id = id

\* C7: in the in-memory store a SetGauge(id, v) on an id that is absent or a
\* gauge leaves GetGauge(id) = v whatever was stored before; the entry of an
\* id changes only in a step that completes a write to that id (a SetCounter,
\* a SetGauge, a batch entry, LoadData); and GetGauge returns the entry as
\* stored. Hence GetGauge(id) returns v until the next write to id.
GaugeReadsLastWrite ==
    [][/\ \A c \in Callers :
             pc[c] = "sg_store" /\ pc'[c] # pc[c] /\ data[op[c].id].kind \in {"none", "gauge"} =>
                 ReadAs("gauge", data'[op[c].id]) = Return(Ok, op[c].val)
       /\ \A id \in Ids :
             data'[id] # data[id] => ret'.call.name = "LoadData" \/ \E c \in Callers : WritesTo(c, id)
       /\ \A c \in Callers :
             pc[c] = "get_read" /\ pc'[c] = "idle" /\ op[c].name = "GetGauge" =>
                 Return(ret'.err, ret'.val) = ReadAs("gauge", data[op[c].id])]_vars

\* The third call of a run, a GetGauge("a"), has just returned 1,
\* after a LoadData and a SetGauge.
GaugeReadsLastWriteWitness ==
    /\ ret.call.name = "GetGauge" /\ ret.call.id = "a" /\ ret.err = Ok /\ ret.val = 1
    /\ calls = 3 /\ data["b"] = GaugeMetric(3)

\* C8: in the in-memory store, between two entries of one SetMetrics call no
\* step of another caller changes the store or returns.
BatchInOneCriticalSection ==
    [][\A c \in Callers :
          pc[c] = "sm_next" /\ pc'[c] = "sm_next" => data' = data /\ ret'.caller = NoCaller]_vars

\* ================================================================== agent
\* C9: the value in every envelope the reporter has built is the value the
\* metric held when the flush put it on the channel, whatever Reset() and
\* Collect() did to the metric afterwards.
EnvelopeHoldsEmittedValue ==
    \A k \in DOMAIN metricsBatch : metricsBatch[k].val = metricsBatch[k].emitted

\* C10: no request the reporter is about to send holds an envelope of a
\* request that failed before.
FailedBatchDiscarded ==
    reporter \in {"send", "residue"} => \A k \in DOMAIN metricsBatch : ~metricsBatch[k].failed

\* The reporter waits in `range` on an empty channel while the producer
\* waits in select: nothing is sent before the next flush or the shutdown.
AgentQuiet == producer.at = "select" /\ metricsChan = <<>> /\ reporter = "range"

\* C11: with no send failed, once a flush is over and the reporter has taken
\* every metric off the channel, every metric of the flush has been sent:
\* none is left in metricsBatch waiting for a later flush or for shutdown.
FlushSentWithinInterval ==
    AgentQuiet /\ (\A k \in DOMAIN metricsBatch : ~metricsBatch[k].failed) => metricsBatch = <<>>

\* C12 (as the code has it): the flush the producer starts on <-ctx.Done()
\* starts only after cancellation, puts every registered metric on the
\* channel in order, is the last flush, and is followed by the close of the
\* channel; the channel is closed once and nothing is put on it afterwards.
\* Report ticks that are ready together with ctx.Done() may still be served
\* before it.
LastFlushThenClose ==
    [][/\ producer'.final /\ ~producer.final => cancelled /\ producer'.at = "send" /\ producer'.i = 1
       /\ producer.final => producer'.final
       /\ Len(metricsChan') > Len(metricsChan) =>
             /\ producer.at = "send" /\ ~closed
             /\ metricsChan' = Append(metricsChan, [metric |-> Registered[producer.i], emitted |-> metricValue[Registered[producer.i]]])
       /\ producer.at = "send" /\ producer'.at = "send" /\ producer' # producer => producer'.i = producer.i + 1
       /\ producer'.at = "return" /\ producer.at # "return" => producer.final /\ producer.i = Len(Registered)
       /\ closed' /\ ~closed => producer.at = "return" /\ producer'.at = "closed"
       /\ closed => closed' /\ producer'.at = "closed"]_vars

\* The channel is closed after the last flush and the reporter is done.
LastFlushThenCloseWitness ==
    closed /\ producer.at = "closed" /\ cancelled /\ reporter = "done" /\ ticks = 1

\* C12 (as stated): a flush started after cancellation is the one taken on
\* <-ctx.Done(), so exactly one flush follows the cancellation.
OneFlushAfterCancel ==
    [][cancelled /\ producer.at = "select" /\ producer'.at = "send" => producer'.final]_vars

\* C13: once the context is cancelled the producer closes the channel and
\* the reporter drains it, sends what is left and terminates.
ShutdownCompletes == cancelled ~> (closed /\ reporter = "done")

\* The data saver is past the Save of its ctx.Done() case.
FinalSaveOver == saver.final /\ saver.at \in {"close", "returned"}

\* C14: once the snapshot loop has made its Save on cancellation, the
\* store file holds the store's contents, as they were when the loop saw
\* the cancellation or as they are now, whatever the backend.
FinalSnapshotCaptures ==
    FinalSaveOver => file \in {EncodeData(saver.want), EncodeData(StoreView)}

\* C15: a store written to the file by Save and restored by Load into an
\* empty in-memory store is the store that was written: the same ids, each
\* with the same kind and the same value.
RoundTripPreserves == srv = "loaded" => data = saver.want

\* Both listeners have been shut down (or never served).
ListenersDown == httpsrv \notin {"starting", "serving"} /\ grpcsrv \notin {"starting", "serving"}

\* Start is inside its case <-quit, or returning from it.
InShutdown == srv \in {"grpc_shutdown", "cancel", "wait", "return"}

\* C16: after a signal the server goes through its shutdown step by step:
\* the listeners are shut down before the root context is cancelled, the
\* context is cancelled before the wait for the data saver, the data saver
\* has returned before Start returns and closes the storage, and the
\* process does not end before it has got there.
ShutdownInOrder ==
    /\ srv \in {"cancel", "wait", "return"} => ListenersDown
    /\ srv \in {"wait", "return"} => rootDone
    /\ srv = "return" => saver.at = "returned"
    /\ InShutdown => ~storageClosed /\ ~crashed

\* C17: while Start has not finished the restore it was asked to make, the
\* data saver has not opened the store file and no listener is serving.
RestoreBeforeServing ==
    srv = "restore" /\ restoreOnBoot =>
        /\ saver.at \in {"off", "open"}
        /\ httpsrv # "serving" /\ grpcsrv # "serving"

\* A restore that loaded a metric is over, the data saver has opened the
\* file and both listeners serve.
RestoreBeforeServingWitness ==
    /\ restoreOnBoot /\ srv = "select" /\ backend = "mem" /\ calls = 0
    /\ data["a"].kind = "counter"
    /\ saver.at = "select" /\ file = EmptyFile
    /\ httpsrv = "serving" /\ grpcsrv = "serving"

\* C18: a call on the relational store runs its database operation at
\* most retryCount (3) times, and the attempt that succeeds is the last:
\* the call returns with it.
AtMostThreeAttempts ==
    /\ \A c \in Callers : loc[c].attempt < 3
    /\ ret.caller # NoCaller =>
          /\ ret.tries <= 3
          /\ ret.err = Ok => pc[ret.caller] = "idle" /\ loc[ret.caller].attempt = 0

\* A call has returned the success of its third attempt.
AtMostThreeAttemptsWitness == ret.caller # NoCaller /\ ret.err = Ok /\ ret.tries = 3

\* The errors isRetryableError takes for transient.
Transient == {"ECONNREFUSED", "connection_exception"}

\* C19: WithRetry sleeps and re-attempts only after a transient failure
\* (connection refused, connection exception); a call that returns the
\* database's other error returns it from the attempt that met it, without
\* a wait.
RetryOnlyTransient ==
    [][\A c \in Callers :
          /\ pc'[c] = "pg_sleep" =>
                loc'[c].err \in Transient /\ loc'[c].wait = retryWaitTime(loc'[c].attempt)
          /\ loc'[c].attempt > 0 => loc'[c].err \in Transient
          /\ pc'[c] # "pg_sleep" => loc'[c].wait = 0
          /\ ret'.caller = c /\ ret'.err = ErrDB => pc[c] # "pg_sleep" /\ loc[c].wait = 0]_vars

\* A call has returned a non-transient error met by its second attempt.
RetryOnlyTransientWitness == ret.caller # NoCaller /\ ret.err = ErrDB /\ ret.tries = 2

\* C20: a call whose context is cancelled while it waits in the backoff of
\* WithRetry does not sleep that wait out: no sleep of a call with a done
\* context runs to its end.
CancelInterruptsBackoff ==
    [][\A c \in Callers : loc[c].ctxDone /\ pc[c] = "pg_sleep" => ~PgRetry(c)]_vars

\* C21: the backoff after the k-th consecutive transient failure of a call
\* lasts 1 s for k = 1, 3 s for k = 2 and 5 s for k = 3.
BackoffSchedule ==
    \A c \in Callers :
        pc[c] = "pg_sleep" => loc[c].wait = <<1, 3, 5>>[loc[c].attempt + 1]

\* A call waits 5 s after its third transient failure.
BackoffScheduleWitness ==
    \E c \in Callers : pc[c] = "pg_sleep" /\ loc[c].attempt = 2 /\ loc[c].wait = 5

\* === HTTP router ===
\* The stages the request of a handler goroutine has been through.
Ran(c) == {http[c].trace[i] : i \in 1..Len(http[c].trace)}

\* C22: with a sign key configured, a POST /updates whose HashSHA256 header is
\* missing or does not verify against the body is answered 400 and never
\* reaches the handler, so that the store is unchanged.
SignatureRejected ==
    \A c \in Callers :
        /\ rcfg.signKey # ""
        /\ http[c].req.route = "updates"
        /\ "HashSumValidator" \in Ran(c)
        /\ http[c].req.hash # CalculateHashSum(rcfg.signKey, http[c].body)
        => /\ http[c].status = 400
           /\ "Handler" \notin Ran(c)
           /\ data = EmptyMap

\* The request is what the agent's send path makes of some batch under the
\* keys that match the server's.
FromMatchingAgent(c, b) ==
    http[c].req = AgentRequest(b, rcfg.signKey, rcfg.privKey, "in")

\* C23: for every combination of signing and encryption, a batch encoded by
\* the agent's send path (marshal, sign the JSON, gzip, encrypt) is accepted
\* by the POST /updates chain of a server with the matching keys, and the
\* handler is given exactly the JSON envelopes of the batch.
AgentBatchAccepted ==
    \A c \in Callers : \A b \in RouterBatches :
        FromMatchingAgent(c, b) /\ http[c].status # 0
        => /\ http[c].status = 200
           /\ "Handler" \in Ran(c)
           /\ http[c].body = Marshal(b)

\* The stages built into the POST /updates chain of the configured router.
Built(stage) ==
    /\ stage = "Cryptography" => rcfg.privKey # ""
    /\ stage = "HashSumValidator" => rcfg.signKey # ""

\* C24: a POST /updates request runs through admission, logger, recoverer,
\* strip-trailing-slash, decrypt, decompress, signature verification and the
\* handler, in exactly this order.
StagesInOrder ==
    \A c \in Callers :
        http[c].req.route = "updates" /\ "Handler" \in Ran(c)
        => http[c].trace =
              SelectSeq(<<"Whitelist", "Logger", "Recoverer", "StripSlashes",
                          "Cryptography", "Compress", "HashSumValidator", "Handler">>, Built)

\* The source address of a request: X-Real-IP, else the first entry of
\* X-Forwarded-For, else the socket peer.
Resolved(r) ==
    IF r.xRealIP # "" THEN r.xRealIP
    ELSE IF r.xff # <<>> THEN r.xff[1]
    ELSE r.peer

\* C25: with a trusted subnet configured, a request on any endpoint whose
\* source address resolves outside the subnet is answered 403 and neither a
\* handler nor a storage operation runs for it.
OutsideSubnetForbidden ==
    \A c \in Callers :
        rcfg.trustedSubnet /\ http[c].req.route # "none" /\ Resolved(http[c].req) = "out"
        => /\ http[c].status \in {0, 403}
           /\ http[c].stage <= 4
           /\ "Handler" \notin Ran(c)
           /\ data = EmptyMap
OutsideSubnetForbiddenWitness ==
    \E c \in Callers :
        /\ rcfg.trustedSubnet
        /\ http[c].req.route = "value"
        /\ http[c].req.xRealIP = "" /\ http[c].req.xff = <<"out", "in">> /\ http[c].req.peer = "in"
        /\ http[c].status = 403

\* The handler has answered 200 to a counter POST /update.
CounterEchoed(c) ==
    /\ http[c].req.route = "update"
    /\ http[c].status = 200
    /\ http[c].body.json[1].MType = "counter"

\* C29: the delta echoed in the response to a counter POST /update is the
\* stored total right after the request's own increment, the prior total plus
\* the request's delta, also with other updates to the same id in flight.
EchoIsOwnIncrement ==
    \A c \in Callers :
        CounterEchoed(c) => http[c].echo = http[c].prior + http[c].body.json[1].val

\* C29, as it holds: the echoed delta is the stored total at the handler's
\* GetCounter, that is the prior total plus the request's delta plus the
\* deltas other requests added to the same id after the handler's SetCounter.
EchoIsTotalAtRead ==
    \A c \in Callers :
        CounterEchoed(c)
        => http[c].echo = http[c].prior + http[c].body.json[1].val + http[c].between
EchoIsTotalAtReadWitness ==
    \E c \in Callers : CounterEchoed(c) /\ http[c].between > 0 /\ http[c].echo = 2

\* The entry of the single-metric update a handler goroutine is serving.
Entry(c) == IF http[c].req.route = "update" THEN http[c].body.json[1] ELSE http[c].req.path[1]

\* The id is stored with the other kind than the entry's.
Contradicts(e) ==
    IF backend = "mem" THEN data[e.ID].kind \notin {"none", e.MType}
    ELSE IF e.MType = "counter" THEN e.ID \in DOMAIN gauges /\ e.ID \notin DOMAIN counters
    ELSE e.ID \in DOMAIN counters /\ e.ID \notin DOMAIN gauges

\* C30: a single-metric update, in the path or the JSON form, whose kind
\* contradicts the kind stored under its id is answered 500 and leaves what
\* is stored as it was.
MismatchAnswered500 ==
    [][\A c \in Callers :
          (UpdateMetric(c) \/ UpdateMetricJSON(c)) /\ Contradicts(Entry(c))
          => http'[c].status = 500 /\ UNCHANGED <<data, counters, gauges>>]_vars

\* === agent send path ===
\* C26: over any one-second window the reporter starts at most as many sends
\* as the limiter's tokens per second.
RateRespected == watch.on => watch.starts <= limit

\* C27: when the agent's root context is cancelled while a send waits for a
\* token, the wait is aborted; it does not end with the token and the send.
CancelAbortsWait ==
    [][sending.pc = "wait" /\ cancelled /\ ~sending.late => sending'.pc # "post"]_vars

\* C28: a send, from its limiter wait through the transport and its retries,
\* is over within sendTimeout of its start.
SendWithinDeadline == sending.pc # "idle" => sending.elapsed <= sendTimeout * Second

\* === batches over HTTP ===
\* Some envelope of the batch the handler is about to apply has another kind
\* than the one stored under its id.
BatchContradicts(c) ==
    \E i \in 1..Len(http[c].body.json) : Contradicts(http[c].body.json[i])

\* C31: a POST /updates batch with an envelope whose kind contradicts the
\* kind stored under its id is answered 400.
ContradictingBatch400 ==
    [][\A c \in Callers :
          UpdateMetricsJSON(c) /\ BatchContradicts(c) => http'[c].status = 400]_vars

\* === gRPC shutdown ===
\* C32: Shutdown waits for the graceful stop until the deadline of its
\* context at most: the server is stopped by force only when the deadline has
\* passed, and Shutdown returns whether the graceful stop finished or not.
ShutdownWithinDeadline ==
    /\ [](grpcStop.stopped => grpcStop.expired)
    /\ (grpcStop.shut = "select" ~> grpcStop.shut = "returned")
ShutdownWithinDeadlineWitness ==
    /\ grpcStop.shut = "returned" /\ grpcStop.stopped
    /\ grpcStop.helper = "graceful" /\ InFlight(grpcStop) # {}

\* C37: the helper goroutine never sends on the done channel after Shutdown
\* has closed it, in both orders of the deadline and the graceful stop.
HelperNeverSendsOnClosed == grpcStop.helper # "panicked"

\* === signature on every mutating route ===
\* C40: with a sign key configured, the store changes only in the course of
\* a request that the signature verification has let through, whatever the
\* route of the request.
SignedChangesOnly ==
    [][rcfg.signKey # "" /\ storeData' # storeData
         => \E c \in Callers : http'[c] # http[c] /\ "HashSumValidator" \in Ran(c)]_vars

\* === reporter ===
\* C38: the batch of the reporter never holds more than batchSize envelopes,
\* whatever the sends return.
BatchAtMostBatchSize == Len(metricsBatch) <= batchSize

\* C34: PollCount is conserved: whenever no flush is under way and the
\* channel is empty, the samples taken so far are those handed to the
\* reporter as PollCount deltas plus those still counted in the metric.
PollCountConserved ==
    producer.at \in {"select", "closed"} /\ metricsChan = <<>>
        => polls = handed + metricValue["PollCount"]

\* === snapshot file and shutdown ===
\* C39: however Start returns, the data saver has terminated (or was never
\* started) by the time the storage is closed.
SaverEndsBeforeClose == storageClosed => saver.at \in {"off", "returned"}

\* C35: on the in-memory backend, when Start has returned from the shutdown
\* after the final Save, the store file holds every update whose handler
\* has returned.
AckedUpdatesInFinalSnapshot ==
    /\ backend = "mem" /\ srv = "exited" /\ FinalSaveOver
    /\ \A c \in Callers : pc[c] = "idle"
    => file = EncodeData(data)

\* C36: a store file that holds a snapshot is never left empty while the
\* store holds a metric.
SnapshotNeverEmptied ==
    [][file # EmptyFile /\ StoreView # EmptyMap => file' # EmptyFile]_vars

\* === end to end ===
\* C33: every counter delta the reporter was given is added to the stored
\* total at most once: the PollCount the server has added up never exceeds
\* the sum of the deltas handed to the reporter.
DeltaAppliedAtMostOnce == total[StoredAs("PollCount")] <= handed
====
